---- MODULE Spec2Model ----
(***************************************************************************)
(* Model of the javardry-spoiler decode pipeline:                          *)
(*   plaintext --kvs::parse--> Kvs --*_from_kvs--> Scenario                *)
(* Text is modelled as a sequence of one-character strings, so that        *)
(* trimming, splitting, number parsing and key formatting are computed     *)
(* character by character as the Rust code computes them.                  *)
(***************************************************************************)
EXTENDS Integers, Sequences, FiniteSets, TLC

VARIABLES
    plaintext,      \* the input of Scenario::load_from_plaintext
    pc,             \* position inside load_from_plaintext / the callee running
    pos,            \* kvs::parse: offset of the Lines iterator into plaintext
    kvs,            \* the Kvs (HashMap<String, String>)
    parsed,         \* what kvs::parse returned: "Pending", "Ok" or "Err"
    warnings,       \* log::warn! records emitted by kvs::parse
    editor_version, \* load_from_plaintext locals
    scenario_id,
    title,
    i,              \* iter_seq: the counter captured by the from_fn closure
    enum_count,     \* Enumerate: the index handed out with the next yielded value
    peeked,         \* Peekable buffer of spell_realms_from_kvs
    header,         \* spell_realms_from_kvs: level_count / last_realm flag
    acc,            \* the Vec under construction in the running *_from_kvs
    stats, races, classes, spell_realms, items, monsters,
    result,         \* the value returned by load_from_plaintext
    unit,           \* a decoder called on its own: its name, "" when none is
    unit_text,      \* ... the text it is given
    decoded,        \* ... and what it returned
    polled,         \* an iter_seq iterator polled on its own: what each poll returned
    model,          \* the viewer: Model { plaintext, scenario, page }
    input_file,     \* ... the files of the <input> element refs.input_file
    reads,          \* ... the read commands issued by perform_cmd, oldest first
    panicked        \* ... whether rendering has panicked

vars == <<plaintext, pc, pos, kvs, parsed, warnings, editor_version,
          scenario_id, title, i, enum_count, peeked, header, acc,
          stats, races, classes, spell_realms, items, monsters, result,
          unit, unit_text, decoded, polled, model, input_file, reads, panicked>>

\* the variables of a decoder called on its own
unitVars == <<unit, unit_text, decoded>>

\* the variables of the viewer
viewVars == <<model, input_file, reads, panicked>>

(***************************************************************************)
(* Characters and std helpers                                              *)
(***************************************************************************)
DigitChars == <<"0", "1", "2", "3", "4", "5", "6", "7", "8", "9">>

Digits == {DigitChars[n] : n \in 1..10}

LowerChars == {"a", "b", "c", "d", "e", "f", "g", "h", "i", "j", "k", "l", "m",
               "n", "o", "p", "q", "r", "s", "t", "u", "v", "w", "x", "y", "z"}

UpperChars == {"A", "B", "C", "D", "E", "F", "G", "H", "I", "J", "K", "L", "M",
               "N", "O", "P", "Q", "R", "S", "T", "U", "V", "W", "X", "Y", "Z"}

AsciiWhitespace == {" ", "\t", "\n", "\f", "\r"}

\* char::is_ascii_whitespace: space, tab, line feed, form feed, carriage return
is_ascii_whitespace(c) == c \in AsciiWhitespace

KeyChars == Digits \cup LowerChars \cup UpperChars \cup {"_"}

\* the character class [0-9a-zA-Z_] of the key regex
IsKeyChar(c) == c \in KeyChars

MinOf(S) == CHOOSE x \in S : \A y \in S : x <= y

MaxOf(S) == CHOOSE x \in S : \A y \in S : x >= y

DigitValue == [c \in Digits |-> (CHOOSE n \in 1..10 : DigitChars[n] = c) - 1]

\* char::to_digit(10): the value of a decimal digit, -1 for None
to_digit10(c) == IF c \in Digits THEN DigitValue[c] ELSE -1

starts_with(s, c) == Len(s) > 0 /\ s[1] = c

ends_with(s, c) == Len(s) > 0 /\ s[Len(s)] = c

\* the first index from n upwards that holds no ASCII whitespace (Len + 1 if none)
RECURSIVE SkipWsUp(_, _)
SkipWsUp(s, n) ==
    IF n > Len(s) \/ ~is_ascii_whitespace(s[n]) THEN n ELSE SkipWsUp(s, n + 1)

\* the last index from n downwards that holds no ASCII whitespace (0 if none)
RECURSIVE SkipWsDown(_, _)
SkipWsDown(s, n) ==
    IF n < 1 \/ ~is_ascii_whitespace(s[n]) THEN n ELSE SkipWsDown(s, n - 1)

\* mutant: the whitespace before '=' and before the opening quote is not skipped
trim_start_none(s) == s

\* util::trim_start_ascii
trim_start_ascii(s) == SubSeq(s, SkipWsUp(s, 1), Len(s))

\* util::trim_ascii
trim_ascii(s) == SubSeq(s, SkipWsUp(s, 1), SkipWsDown(s, Len(s)))

\* str::split(pattern): the pieces between the leftmost non-overlapping matches
\* text is scanned in blocks of this many characters, which only bounds the
\* depth of the recursive definitions below
ScanBlock == 8

\* the offset of the leftmost occurrence of sep in s at or after p, 0 if none
RECURSIVE NextMatch(_, _, _)
NextMatch(s, sep, p) ==
    LET end  == Len(s) - Len(sep) + 1
        last == IF p + ScanBlock - 1 < end THEN p + ScanBlock - 1 ELSE end
        hits == {n \in p..last : s[n] = sep[1] /\ SubSeq(s, n, n + Len(sep) - 1) = sep}
    IN  IF hits # {} THEN MinOf(hits)
        ELSE IF last >= end THEN 0
        ELSE NextMatch(s, sep, last + 1)

\* the pieces of s from offset start on, cut at the leftmost match at or after
\* start and then at the leftmost match after the end of that one
RECURSIVE SplitFrom(_, _, _)
SplitFrom(s, sep, start) ==
    LET m == NextMatch(s, sep, start)
    IN  IF m = 0 THEN <<SubSeq(s, start, Len(s))>>
        ELSE <<SubSeq(s, start, m - 1)>> \o SplitFrom(s, sep, m + Len(sep))

\* mutant: trailing empty pieces are dropped
split_drops_trailing_empty(s, sep) ==
    LET parts == SplitFrom(s, sep, 1)
        keep  == {n \in 1..Len(parts) : parts[n] # <<>>}
    IN  IF keep = {} THEN <<>> ELSE SubSeq(parts, 1, MaxOf(keep))

split(s, sep) == SplitFrom(s, sep, 1)

\* format!("{}", n) for an unsigned integer
RECURSIVE ToDec(_)
ToDec(n) == IF n < 10 THEN <<DigitChars[n + 1]>>
            ELSE ToDec(n \div 10) \o <<DigitChars[(n % 10) + 1]>>

(***************************************************************************)
(* Integer parsing (core::num FromStr).  Values are kept as canonical      *)
(* decimal digit strings so that the u64 and u32 ranges are exact.         *)
(***************************************************************************)
U8Max == <<"2", "5", "5">>

U32Max == <<"4", "2", "9", "4", "9", "6", "7", "2", "9", "5">>

I32Max == <<"2", "1", "4", "7", "4", "8", "3", "6", "4", "7">>

I32MinMag == <<"2", "1", "4", "7", "4", "8", "3", "6", "4", "8">>

U64Max == <<"1", "8", "4", "4", "6", "7", "4", "4", "0", "7",
            "3", "7", "0", "9", "5", "5", "1", "6", "1", "5">>

\* drop leading zeros, keeping one digit
Canon(d) ==
    LET nz == {n \in 1..Len(d) : d[n] # "0"}
    IN  IF nz = {} THEN <<"0">> ELSE SubSeq(d, MinOf(nz), Len(d))

\* a <= b for canonical digit strings
DecLeq(a, b) ==
    \/ Len(a) < Len(b)
    \/ /\ Len(a) = Len(b)
       /\ \/ a = b
          \/ LET d == MinOf({n \in 1..Len(a) : a[n] # b[n]})
             IN  to_digit10(a[d]) < to_digit10(b[d])

AllDigits(s) == Len(s) > 0 /\ \A n \in 1..Len(s) : s[n] \in Digits

NumErr == [ok |-> FALSE, neg |-> FALSE, mag |-> <<>>]

\* mutant: text that is no value of the type reads as zero
ParseUnsignedOrZero(s, max) ==
    LET body == IF starts_with(s, "+") THEN Tail(s) ELSE s
    IN  IF AllDigits(body) /\ DecLeq(Canon(body), max)
        THEN [ok |-> TRUE, neg |-> FALSE, mag |-> Canon(body)]
        ELSE [ok |-> TRUE, neg |-> FALSE, mag |-> <<"0">>]

\* <unsigned>::from_str: optional '+', one or more digits, value <= max
ParseUnsigned(s, max) ==
    LET body == IF starts_with(s, "+") THEN Tail(s) ELSE s
    IN  IF AllDigits(body) /\ DecLeq(Canon(body), max)
        THEN [ok |-> TRUE, neg |-> FALSE, mag |-> Canon(body)]
        ELSE NumErr

\* i32::from_str: optional '+' or '-', one or more digits, value in range
ParseI32(s) ==
    LET neg  == starts_with(s, "-")
        body == IF neg \/ starts_with(s, "+") THEN Tail(s) ELSE s
    IN  IF AllDigits(body) /\ DecLeq(Canon(body), IF neg THEN I32MinMag ELSE I32Max)
        THEN [ok |-> TRUE, neg |-> neg /\ Canon(body) # <<"0">>, mag |-> Canon(body)]
        ELSE NumErr

ParseU8(s) == ParseUnsigned(s, U8Max)

ParseU32(s) == ParseUnsigned(s, U32Max)

ParseU64(s) == ParseUnsigned(s, U64Max)

\* the machine integer of a small parsed value (callers pass at most 9 digits)
RECURSIVE DecVal(_)
DecVal(d) == IF Len(d) = 0 THEN 0
             ELSE 10 * DecVal(SubSeq(d, 1, Len(d) - 1)) + to_digit10(d[Len(d)])

S_true == <<"t", "r", "u", "e">>

S_false == <<"f", "a", "l", "s", "e">>

\* bool::from_str
ParseBool(s) == [ok |-> s \in {S_true, S_false}, val |-> s = S_true]

\* s.split(',').map(str::parse::<u32>).collect::<Result<Vec<_>, _>>()
ParseU32List(s) ==
    LET parts == split(s, <<",">>)
        nums  == [n \in 1..Len(parts) |-> ParseU32(parts[n])]
    IN  [ok |-> \A n \in 1..Len(parts) : nums[n].ok, val |-> nums]

(***************************************************************************)
(* kvs.rs                                                                  *)
(***************************************************************************)
EmptyKvs == <<>>

KvsErr(check, text) == [tag |-> "Err", check |-> check, text |-> text]

\* Regex \A[0-9a-zA-Z_]+ at offset 0: the end of the longest match, 0 for None
RECURSIVE KeyMatchFrom(_, _)
KeyMatchFrom(line, n) ==
    IF n < Len(line) /\ IsKeyChar(line[n + 1]) THEN KeyMatchFrom(line, n + 1) ELSE n

KeyMatchEnd(line) == KeyMatchFrom(line, 0)

\* mutant: the value ends at the first quote after the opening one
ValueToFirstQuote(line3) ==
    SubSeq(line3, 1, MinOf({n \in 1..Len(line3) : line3[n] = "\""}) - 1)

\* &line[..line.len() - 1]: everything before the final quote
ValueOf(line3) == SubSeq(line3, 1, Len(line3) - 1)

\* the body of the per-line loop of kvs::parse, up to the insertion
ParseLine(raw) ==
    LET line0 == trim_ascii(raw)
    IN  IF line0 = <<>> THEN [tag |-> "Skip"]
        ELSE LET mEnd == KeyMatchEnd(line0)
             IN  IF mEnd = 0 THEN KvsErr("no_key", line0)
                 ELSE LET key   == SubSeq(line0, 1, mEnd)
                          line1 == trim_start_ascii(SubSeq(line0, mEnd + 1, Len(line0)))
                      IN  IF ~starts_with(line1, "=") THEN KvsErr("missing_equals", line1)
                          ELSE LET line2 == trim_start_ascii(Tail(line1))
                               IN  IF ~starts_with(line2, "\"")
                                   THEN KvsErr("missing_open_quote", line2)
                                   ELSE LET line3 == Tail(line2)
                                        IN  IF ~ends_with(line3, "\"")
                                            THEN KvsErr("missing_close_quote", line3)
                                            ELSE [tag   |-> "Entry",
                                                  key   |-> key,
                                                  value |-> ValueOf(line3)]

\* mutant: the first occurrence of a key wins
KvsInsertKeepFirst(m, key, value) ==
    [k \in (DOMAIN m) \cup {key} |-> IF k \in DOMAIN m THEN m[k] ELSE value]

\* HashMap::insert: the new map (the old value is what insert returns)
KvsInsert(m, key, value) ==
    [k \in (DOMAIN m) \cup {key} |-> IF k = key THEN value ELSE m[k]]

\* str::lines: the end of the line starting at offset p (index of its "\n",
\* or Len + 1 when the last line has no terminator)
\* (scanned in blocks of ScanBlock characters to keep the recursion shallow)
RECURSIVE LineEnd(_, _)
LineEnd(s, p) ==
    LET last == IF p + ScanBlock - 1 < Len(s) THEN p + ScanBlock - 1 ELSE Len(s)
        nl   == {n \in p..last : s[n] = "\n"}
    IN  IF nl # {} THEN MinOf(nl)
        ELSE IF last = Len(s) THEN Len(s) + 1
        ELSE LineEnd(s, last + 1)

\* the line starting at offset p, without its "\n" or "\r\n"
LineAt(s, p) ==
    LET e    == LineEnd(s, p)
        body == SubSeq(s, p, e - 1)
    IN  IF e <= Len(s) /\ ends_with(body, "\r") THEN SubSeq(body, 1, Len(body) - 1) ELSE body

\* mutant: an absent key reads as the empty string (the behaviour of get_or)
get_expect_or_empty(m, key) ==
    IF key \in DOMAIN m THEN [ok |-> TRUE, val |-> m[key]]
    ELSE [ok |-> TRUE, val |-> <<>>]

\* KvsExt::get_expect
get_expect(m, key) ==
    IF key \in DOMAIN m THEN [ok |-> TRUE, val |-> m[key]]
    ELSE [ok |-> FALSE, val |-> key]

\* one call of the from_fn closure of iter_seq with counter n: the key looked up
SeqKey(prefix, n) == prefix \o ToDec(n)

\* mutant: an absent index is skipped, the next present one is returned
IterPollSkipsGap(m, prefix, n) ==
    LET present == {k \in n..(n + Cardinality(DOMAIN m)) : SeqKey(prefix, k) \in DOMAIN m}
    IN  IF present # {} THEN [some |-> TRUE, val |-> m[SeqKey(prefix, MinOf(present))]]
        ELSE [some |-> FALSE, val |-> <<>>]

\* mutant: the sequence keys are taken to start at index 1
IterPollFromOne(m, prefix, n) ==
    IF SeqKey(prefix, n + 1) \in DOMAIN m
    THEN [some |-> TRUE, val |-> m[SeqKey(prefix, n + 1)]]
    ELSE [some |-> FALSE, val |-> <<>>]

\* ... and what the closure returns (self.get(&key)); the counter becomes n + 1
IterPoll(m, prefix, n) ==
    IF SeqKey(prefix, n) \in DOMAIN m
    THEN [some |-> TRUE, val |-> m[SeqKey(prefix, n)]]
    ELSE [some |-> FALSE, val |-> <<>>]

(***************************************************************************)
(* Field helpers shared by the entity decoders                             *)
(***************************************************************************)
Sep == <<"<", ">">>

\* fields[n] with the 0-based index of the Rust source
Fld(fields, n) == fields[n + 1]

Ok(v) == [ok |-> TRUE, val |-> v, cause |-> ""]

Fail(cause) == [ok |-> FALSE, val |-> <<>>, cause |-> cause]

\* the `?` chain: steps is the sequence of fallible conversions in source
\* order; the first one that fails is the error of the whole function
FirstFailure(steps) ==
    LET bad == {n \in 1..Len(steps) : ~steps[n].ok}
    IN  IF bad = {} THEN "" ELSE steps[MinOf(bad)].cause

\* .collect::<Result<Vec<_>, _>>(): the values, or the first failure
Collect(steps) ==
    IF FirstFailure(steps) # "" THEN Fail(FirstFailure(steps))
    ELSE Ok([n \in 1..Len(steps) |-> steps[n].val])

\* a struct literal after its `?` chain: fields is the sequence of
\* <<field name, conversion>> in the order the source evaluates them
Struct(fields) ==
    LET steps == [n \in 1..Len(fields) |-> fields[n][2]]
    IN  IF FirstFailure(steps) # "" THEN Fail(FirstFailure(steps))
        ELSE Ok([k \in {fields[n][1] : n \in 1..Len(fields)} |->
                    fields[CHOOSE n \in 1..Len(fields) : fields[n][1] = k][2].val])

Num(r) == [ok |-> r.ok, val |-> [neg |-> r.neg, mag |-> r.mag], cause |-> "number"]

Bool(r) == [ok |-> r.ok, val |-> r.val, cause |-> "bool"]

NumList(r) == [ok |-> r.ok,
               val |-> [n \in 1..Len(r.val) |-> [neg |-> r.val[n].neg, mag |-> r.val[n].mag]],
               cause |-> "number"]

HexChars == <<"0", "1", "2", "3", "4", "5", "6", "7", "8", "9", "a", "b", "c", "d", "e", "f">>

HexUpper == <<"0", "1", "2", "3", "4", "5", "6", "7", "8", "9", "A", "B", "C", "D", "E", "F">>

\* char::to_digit(16), -1 for None
HexValue ==
    [c \in {HexChars[n] : n \in 1..16} \cup {HexUpper[n] : n \in 1..16} |->
        (CHOOSE n \in 1..16 : HexChars[n] = c \/ HexUpper[n] = c) - 1]

to_digit16(c) == IF c \in DOMAIN HexValue THEN HexValue[c] ELSE -1

\* lib.rs: the ResistMask bits the claims name
RESIST_POISON == 2

RESIST_FIRE == 10

\* lib.rs: the bits ResistMask defines (bit 9 is unused)
ResistMaskBits == (0..8) \cup (10..14)

\* lib.rs: DebuffMask bits
DEBUFF_SLEEP == 0

DEBUFF_PARALYSIS == 1

DEBUFF_PETRIFICATION == 2

DEBUFF_KNOCKOUT == 3

DEBUFF_CRITICAL == 4

DebuffMaskBits == {DEBUFF_SLEEP, DEBUFF_PARALYSIS, DEBUFF_PETRIFICATION,
                   DEBUFF_KNOCKOUT, DEBUFF_CRITICAL}

\* monster.rs: MonsterKindMask has one bit per MonsterKind 0..14
MonsterKindMaskBits == 0..14

\* mutant: from_bits_truncate, undefined bits are dropped
ParseDigitMaskTruncating(s, radix, defined) ==
    LET digit(c) == IF radix = 16 THEN to_digit16(c) ELSE to_digit10(c)
        bad == {n \in 1..Len(s) : digit(s[n]) < 0}
        bits == {digit(s[n]) : n \in 1..Len(s)}
    IN  IF bad # {} THEN Fail("invalid_char") ELSE Ok(bits \cap defined)

\* the digit-per-bit loop followed by T::from_bits; a mask is the set of its bits
ParseDigitMask(s, radix, defined) ==
    LET digit(c) == IF radix = 16 THEN to_digit16(c) ELSE to_digit10(c)
        bad == {n \in 1..Len(s) : digit(s[n]) < 0}
        bits == {digit(s[n]) : n \in 1..Len(s)}
    IN  IF bad # {} THEN Fail("invalid_char")
        ELSE IF ~(bits \subseteq defined) THEN Fail("unknown_flag_bit")
        ELSE Ok(bits)

\* util::parse_resist_mask
parse_resist_mask(s) == ParseDigitMask(s, 16, ResistMaskBits)

\* util::parse_monster_kind_mask
parse_monster_kind_mask(s) == ParseDigitMask(s, 16, MonsterKindMaskBits)

\* the per-character loop of parse_sex_mask / parse_alignment_mask
\* (class.rs) and parse_curse_*_mask (item.rs): decimal digit below limit
ParseSmallMask(s, limit) ==
    LET bad == {n \in 1..Len(s) : to_digit10(s[n]) < 0 \/ to_digit10(s[n]) >= limit}
    IN  IF bad # {}
        THEN Fail(IF to_digit10(s[MinOf(bad)]) < 0 THEN "invalid_char" ELSE "out_of_range")
        ELSE Ok({to_digit10(s[n]) : n \in 1..Len(s)})

(***************************************************************************)
(* stat.rs                                                                 *)
(***************************************************************************)
\* the body of parse once the text is split
StatFromFields(id, fields) ==
    IF Len(fields) # 8 THEN Fail("arity")
    ELSE Struct(<< <<"id", Ok(id)>>,
                   <<"name", Ok(Fld(fields, 0))>>,
                   <<"name_abbr", Ok(Fld(fields, 1))>>,
                   <<"sex_bonus", Collect(<<Num(ParseI32(Fld(fields, 2))),
                                            Num(ParseI32(Fld(fields, 3)))>>)>>,
                   <<"fixed_on_create", Bool(ParseBool(Fld(fields, 4)))>>,
                   <<"hide", Bool(ParseBool(Fld(fields, 7)))>> >>)

StatParse(id, text) == StatFromFields(id, split(text, Sep))

(***************************************************************************)
(* race.rs                                                                 *)
(***************************************************************************)
\* the body of parse once the text is split
RaceFromFields(id, fields) ==
    IF Len(fields) # 14 THEN Fail("arity")
    ELSE Struct(<< <<"id", Ok(id)>>,
                   <<"name", Ok(Fld(fields, 0))>>,
                   <<"name_abbr", Ok(Fld(fields, 1))>>,
                   <<"stats", NumList(ParseU32List(Fld(fields, 2)))>>,
                   <<"lifetime", Num(ParseU32(Fld(fields, 3)))>>,
                   <<"ac", Num(ParseI32(Fld(fields, 4)))>>,
                   <<"healing", Num(ParseI32(Fld(fields, 5)))>>,
                   <<"spell_cancel", Num(ParseI32(Fld(fields, 6)))>>,
                   <<"resist_mask", parse_resist_mask(Fld(fields, 9))>>,
                   <<"cond_to_appear", Ok(Fld(fields, 10))>>,
                   <<"description", Ok(Fld(fields, 11))>>,
                   <<"inven_bonus", Num(ParseI32(Fld(fields, 13)))>> >>)

RaceParse(id, text) == RaceFromFields(id, split(text, Sep))

(***************************************************************************)
(* class.rs                                                                *)
(***************************************************************************)
class_parse_sex_mask(s) == ParseSmallMask(s, 2)

class_parse_alignment_mask(s) == ParseSmallMask(s, 3)

\* parse_barehand_damage_expr (class.rs) and parse_damage_expr (item.rs)
parse_damage_expr(s) ==
    LET fields == split(s, <<",">>)
    IN  IF Len(fields) # 3 THEN Fail("damage_arity") ELSE Ok(fields)

\* class.rs parse_attack_debuff_mask: a u8 code, 0..2
class_parse_attack_debuff_mask(s) ==
    LET value == ParseU8(s)
    IN  IF ~value.ok THEN Fail("number")
        ELSE IF value.mag = <<"0">> THEN Ok({})
        ELSE IF value.mag = <<"1">> THEN Ok({DEBUFF_KNOCKOUT})
        ELSE IF value.mag = <<"2">> THEN Ok({DEBUFF_CRITICAL})
        ELSE Fail("debuff_value")

\* mutant: the threshold is present whatever its value
NonZeroAlwaysSome(r) ==
    IF ~r.ok THEN r ELSE Ok([some |-> TRUE, val |-> r.val])

\* xl_for_dispell: the parsed u32, None when it is zero
NonZero(r) ==
    IF ~r.ok THEN r ELSE Ok([some |-> r.val.mag # <<"0">>, val |-> r.val])

\* the body of parse once the text is split
ClassFromFields(id, fields) ==
    IF Len(fields) # 21 THEN Fail("arity")
    ELSE Struct(<< <<"id", Ok(id)>>,
                   <<"name", Ok(Fld(fields, 0))>>,
                   <<"name_abbr", Ok(Fld(fields, 1))>>,
                   <<"sex_mask", class_parse_sex_mask(Fld(fields, 2))>>,
                   <<"alignment_mask", class_parse_alignment_mask(Fld(fields, 3))>>,
                   <<"stats", NumList(ParseU32List(Fld(fields, 4)))>>,
                   <<"ac_expr", Ok(Fld(fields, 5))>>,
                   <<"hit_expr", Ok(Fld(fields, 6))>>,
                   <<"attack_count_expr", Ok(Fld(fields, 7))>>,
                   <<"barehand_damage_expr", parse_damage_expr(Fld(fields, 8))>>,
                   <<"attack_debuff_mask", class_parse_attack_debuff_mask(Fld(fields, 9))>>,
                   <<"thief_skill", Num(ParseI32(Fld(fields, 10)))>>,
                   <<"can_identify", Bool(ParseBool(Fld(fields, 11)))>>,
                   <<"xl_for_dispell", NonZero(Num(ParseU32(Fld(fields, 12))))>>,
                   <<"dispell_mask", parse_monster_kind_mask(Fld(fields, 13))>>,
                   <<"hp_expr", Ok(Fld(fields, 15))>>,
                   <<"xp_expr", Ok(Fld(fields, 16))>>,
                   <<"description", Ok(Fld(fields, 17))>>,
                   <<"inven_bonus", Num(ParseI32(Fld(fields, 18)))>>,
                   <<"cond_to_appear", Ok(Fld(fields, 20))>> >>)

ClassParse(id, text) == ClassFromFields(id, split(text, Sep))

(***************************************************************************)
(* spell.rs                                                                *)
(***************************************************************************)
parse_spell(s) ==
    LET fields == split(s, Sep)
    IN  IF Len(fields) # 8 THEN Fail("arity")
        ELSE Struct(<< <<"name", Ok(Fld(fields, 0))>>,
                       <<"description", Ok(Fld(fields, 2))>>,
                       <<"cost_mp", Num(ParseU32(Fld(fields, 6)))>>,
                       <<"ignore_silence", Bool(ParseBool(Fld(fields, 7)))>>,
                       <<"extra_learn", Bool(ParseBool(Fld(fields, 5)))>> >>)

parse_spells_of_level(s) ==
    IF trim_ascii(s) = <<>> THEN Ok(<<>>)
    ELSE LET fields == split(trim_ascii(s), <<"<", "+", "+", ">">>)
         IN  Collect([n \in 1..Len(fields) |-> parse_spell(fields[n])])

\* the body of parse once the text is split; level_count is the parsed u32
\* (digit string) of SpellLvNum
SpellRealmFromFields(level_count, is_only_for_monster, id, fields) ==
    IF Len(level_count.mag) > 9 \/ Len(fields) # DecVal(level_count.mag) + 1
    THEN Fail("level_count")
    ELSE Struct(<< <<"name", Ok(Fld(fields, 0))>>,
                   <<"spells_of_levels",
                     Collect([n \in 1..(Len(fields) - 1) |->
                                 parse_spells_of_level(fields[n + 1])])>>,
                   <<"id", Ok(id)>>,
                   <<"level_count", Ok(level_count)>>,
                   <<"is_only_for_monster", Ok(is_only_for_monster)>> >>)

SpellRealmParse(level_count, is_only_for_monster, id, text) ==
    SpellRealmFromFields(level_count, is_only_for_monster, id,
                         split(text, <<"<", "-", "-", ">">>))

(***************************************************************************)
(* item.rs                                                                 *)
(***************************************************************************)
\* ItemKind: TryFromPrimitive over the u8 codes 0..6
ItemKindCodes == {ToDec(n) : n \in 0..6}

ParseEnum(s, codes) ==
    LET v == ParseU8(s)
    IN  IF ~v.ok THEN Fail("number")
        ELSE IF v.mag \notin codes THEN Fail("unknown_enum")
        ELSE Ok(DecVal(v.mag))

\* Regex \A<word>\[([0-9]+)\]\z followed by the u32 parse of group 1
ParseBracketId(s, word) ==
    LET open == word \o <<"[">>
        n    == Len(open)
    IN  IF /\ Len(s) >= n + 2
           /\ SubSeq(s, 1, n) = open
           /\ s[Len(s)] = "]"
           /\ \A k \in (n + 1)..(Len(s) - 1) : s[k] \in Digits
        THEN Num(ParseU32(SubSeq(s, n + 1, Len(s) - 1)))
        ELSE Fail("bad_mask_token")

\* the loop of parse_equip_class_mask / parse_equip_race_mask over one token
ParseEquipToken(field, word) ==
    LET id == ParseBracketId(field, word)
    IN  IF ~id.ok THEN id
        ELSE IF ~DecLeq(id.val.mag, <<"3", "5">>) THEN Fail("out_of_range")
        ELSE Ok(DecVal(id.val.mag))

\* one component of a tuple-valued conversion, e.g. `let (a, b) = f(s)?`
Proj(r, n) == IF r.ok THEN Ok(r.val[n]) ELSE r

\* mutant: the shift is done in 32 bits, the shift amount wrapping at 32
MaskOfShift32(r) == IF r.ok THEN Ok({r.val[n] % 32 : n \in 1..Len(r.val)}) ELSE r

\* mask |= 1 << v over the collected values, in the 64 bits of the mask type;
\* a mask is kept as the set of its bit positions
MaskOf(r) == IF r.ok THEN Ok({r.val[n] : n \in 1..Len(r.val)}) ELSE r

EquipTokens(fields, word) ==
    MaskOf(Collect([n \in 1..Len(fields) |-> ParseEquipToken(fields[n], word)]))

ParseEquipMask(s, word) ==
    IF s = <<"-">> THEN Ok({}) ELSE EquipTokens(split(s, <<"<", "+", ">">>), word)

parse_equip_class_mask(s) == ParseEquipMask(s, <<"c", "l", "a", "s", "s">>)

parse_equip_race_mask(s) == ParseEquipMask(s, <<"r", "a", "c", "e">>)

EquipMasksFromFields(fields) ==
    IF Len(fields) # 2 THEN Fail("mask_arity")
    ELSE Collect(<<parse_equip_class_mask(fields[1]), parse_equip_race_mask(fields[2])>>)

\* mutant: the empty field goes through the split like any other
parse_equip_masks_no_empty_case(s) == EquipMasksFromFields(split(s, <<",">>))

parse_equip_masks(s) ==
    IF s = <<>> THEN Ok(<<{}, {}>>) ELSE EquipMasksFromFields(split(s, <<",">>))

parse_curse_alignment_mask(s) == IF s = <<"-">> THEN Ok({}) ELSE ParseSmallMask(s, 3)

parse_curse_sex_mask(s) == IF s = <<"-">> THEN Ok({}) ELSE ParseSmallMask(s, 2)

CurseMasksFromFields(fields) ==
    IF Len(fields) # 2 THEN Fail("mask_arity")
    ELSE Collect(<<parse_curse_alignment_mask(fields[1]), parse_curse_sex_mask(fields[2])>>)

parse_curse_masks(s) ==
    IF s = <<>> THEN Ok(<<{}, {}>>) ELSE CurseMasksFromFields(split(s, <<",">>))

\* mutant: the Item field takes the codes of the Class field only
item_parse_attack_debuff_mask_class_codes(s) ==
    LET value == ParseU8(s)
    IN  IF ~value.ok THEN Fail("number")
        ELSE IF value.mag = <<"0">> THEN Ok({})
        ELSE IF value.mag = <<"1">> THEN Ok({DEBUFF_KNOCKOUT})
        ELSE IF value.mag = <<"2">> THEN Ok({DEBUFF_CRITICAL})
        ELSE Fail("debuff_value")

\* item.rs parse_attack_debuff_mask: a u8 code, 0..5
item_parse_attack_debuff_mask(s) ==
    LET value == ParseU8(s)
    IN  IF ~value.ok THEN Fail("number")
        ELSE IF value.mag = <<"0">> THEN Ok({})
        ELSE IF value.mag = <<"1">> THEN Ok({DEBUFF_KNOCKOUT})
        ELSE IF value.mag = <<"2">> THEN Ok({DEBUFF_CRITICAL})
        ELSE IF value.mag = <<"3">> THEN Ok({DEBUFF_SLEEP})
        ELSE IF value.mag = <<"4">> THEN Ok({DEBUFF_PARALYSIS})
        ELSE IF value.mag = <<"5">> THEN Ok({DEBUFF_PETRIFICATION})
        ELSE Fail("debuff_value")

BrokenItemId(id) == IF ~id.ok THEN id ELSE Ok([some |-> TRUE, val |-> id.val.mag])

parse_broken_item_id(s) ==
    IF s = <<"-", "1">> THEN Ok([some |-> FALSE, val |-> <<>>])
    ELSE BrokenItemId(ParseBracketId(s, <<"i", "t", "e", "m">>))

I32List(parts) == Collect([n \in 1..Len(parts) |-> Num(ParseI32(parts[n]))])

\* s.split(',').map(str::parse::<i32>).collect()
parse_stats_bonus(s) == I32List(split(s, <<",">>))

\* item.rs parse after the split: the conversions in the order of the source
ItemFromFields(id, fields) ==
    IF Len(fields) # 39 THEN Fail("arity")
    ELSE Struct(<<
        <<"id",                   Ok(id)>>,
        <<"name_ident",           Ok(Fld(fields, 0))>>,
        <<"name_unident",         Ok(Fld(fields, 1))>>,
        <<"kind",                 ParseEnum(Fld(fields, 2), ItemKindCodes)>>,
        <<"price",                Num(ParseU64(Fld(fields, 3)))>>,
        <<"stock",                Num(ParseI32(Fld(fields, 4)))>>,
        <<"equip_class_mask",     Proj(parse_equip_masks(Fld(fields, 5)), 1)>>,
        <<"equip_race_mask",      Proj(parse_equip_masks(Fld(fields, 5)), 2)>>,
        <<"curse_alignment_mask", Proj(parse_curse_masks(Fld(fields, 6)), 1)>>,
        <<"curse_sex_mask",       Proj(parse_curse_masks(Fld(fields, 6)), 2)>>,
        <<"ac",                   Num(ParseI32(Fld(fields, 8)))>>,
        <<"ac_curse",             Num(ParseI32(Fld(fields, 9)))>>,
        <<"damage_expr",          parse_damage_expr(Fld(fields, 10))>>,
        <<"hit_modifier",         Num(ParseI32(Fld(fields, 12)))>>,
        <<"attack_count_modifier", Num(ParseI32(Fld(fields, 13)))>>,
        <<"attack_debuff_mask",   item_parse_attack_debuff_mask(Fld(fields, 14))>>,
        <<"healing",              Num(ParseI32(Fld(fields, 18)))>>,
        <<"resist_mask",          parse_resist_mask(Fld(fields, 22))>>,
        <<"spell_cancel",         Num(ParseI32(Fld(fields, 19)))>>,
        <<"slay_mask",            parse_monster_kind_mask(Fld(fields, 16))>>,
        <<"protect_mask",         parse_monster_kind_mask(Fld(fields, 17))>>,
        <<"use_str",              Ok(Fld(fields, 24))>>,
        <<"sp_str",               Ok(Fld(fields, 25))>>,
        <<"break_prob_expr",      Ok(Fld(fields, 20))>>,
        <<"broken_item_id",       parse_broken_item_id(Fld(fields, 21))>>,
        <<"description",          Ok(Fld(fields, 23))>>,
        <<"ident_difficulty",     Num(ParseU32(Fld(fields, 7)))>>,
        <<"attack_target_count",  Num(ParseU32(Fld(fields, 26)))>>,
        <<"usable_only_if_equipable", Bool(ParseBool(Fld(fields, 28)))>>,
        <<"effect_only_if_equiped",   Bool(ParseBool(Fld(fields, 29)))>>,
        <<"disable_class_attack_debuff_if_equiped", Bool(ParseBool(Fld(fields, 30)))>>,
        <<"disable_class_ac_if_equiped", Bool(ParseBool(Fld(fields, 31)))>>,
        <<"stats_bonus",          parse_stats_bonus(Fld(fields, 32))>>,
        <<"halve_attack_count_if_subweapon", Bool(ParseBool(Fld(fields, 33)))>>,
        <<"poison_damage",        Num(ParseU32(Fld(fields, 34)))>>,
        <<"effect_only_if_equipable", Bool(ParseBool(Fld(fields, 35)))>>,
        <<"hide_in_catalog",      Bool(ParseBool(Fld(fields, 36)))>> >>)

ItemParse(id, text) == ItemFromFields(id, split(text, Sep))

(***************************************************************************)
(* monster.rs                                                              *)
(***************************************************************************)
\* MonsterKind: TryFromPrimitive over the u8 codes 0..14
MonsterKindCodes == {ToDec(n) : n \in 0..14}

\* mutant: the Monster field is read through the code table of the Item field
monster_parse_attack_debuff_mask_item_codes(s) ==
    LET value == ParseU8(s)
    IN  IF ~value.ok THEN Fail("number")
        ELSE IF value.mag = <<"0">> THEN Ok({})
        ELSE IF value.mag = <<"1">> THEN Ok({DEBUFF_KNOCKOUT})
        ELSE IF value.mag = <<"2">> THEN Ok({DEBUFF_CRITICAL})
        ELSE IF value.mag = <<"3">> THEN Ok({DEBUFF_SLEEP})
        ELSE IF value.mag = <<"4">> THEN Ok({DEBUFF_PARALYSIS})
        ELSE IF value.mag = <<"5">> THEN Ok({DEBUFF_PETRIFICATION})
        ELSE Fail("debuff_value")

\* monster.rs parse_attack_debuff_mask: one decimal digit per bit
monster_parse_attack_debuff_mask(s) == ParseDigitMask(s, 10, DebuffMaskBits)

\* mutant: the Monster fields are read in the generic bit layout
TRANSLATION_generic_layout == [n \in 1..13 |-> <<n - 1, n - 1>>]

\* TRANSLATION of monster.rs parse_resist_mask: <<bit position, ResistMask bit>>
TRANSLATION == <<
    <<0, 1>>,    \* SLEEP
    <<1, 6>>,    \* KNOCKOUT
    <<2, 7>>,    \* CRITICAL
    <<3, 8>>,    \* DEATH
    <<4, 10>>,   \* FIRE
    <<5, 11>>,   \* COLD
    <<6, 12>>,   \* ELECTRIC
    <<7, 13>>,   \* HOLY
    <<8, 14>>,   \* GENERIC
    <<9, 0>>,    \* SILENCE
    <<10, 2>>,   \* POISON
    <<11, 3>>,   \* PARALYSIS
    <<12, 4>> >> \* PETRIFICATION

\* monster.rs parse_resist_mask: hex digit per bit, then the translation loop
monster_parse_resist_mask(s) ==
    LET bad  == {n \in 1..Len(s) : to_digit16(s[n]) < 0}
        bits == {to_digit16(s[n]) : n \in 1..Len(s)}
    IN  IF bad # {} THEN Fail("invalid_char")
        ELSE Ok({TRANSLATION[n][2] : n \in {m \in 1..Len(TRANSLATION) : TRANSLATION[m][1] \in bits}})

Follower(s_id, prob) ==
    IF ~prob.ok THEN prob ELSE Ok([some |-> TRUE, id_expr |-> s_id, prob |-> prob.val.mag])

\* mutant: the probability is parsed before the id is looked at
parse_follower_prob_first(s_id, s_prob) ==
    IF s_prob # <<>> /\ ~ParseU32(s_prob).ok THEN Fail("number")
    ELSE IF s_id = <<>> THEN Ok([some |-> FALSE, id_expr |-> <<>>, prob |-> <<>>])
    ELSE Ok([some |-> TRUE, id_expr |-> s_id,
             prob |-> IF s_prob = <<>> THEN <<"5", "0">> ELSE ParseU32(s_prob).mag])

parse_follower(s_id, s_prob) ==
    IF s_id = <<>> THEN Ok([some |-> FALSE, id_expr |-> <<>>, prob |-> <<>>])
    ELSE Follower(s_id, IF s_prob = <<>> THEN Ok([neg |-> FALSE, mag |-> <<"5", "0">>])
                        ELSE Num(ParseU32(s_prob)))

\* monster.rs parse after the split: the conversions in the order of the source
MonsterFromFields(id, fields) ==
    IF ~(Len(fields) >= 49) THEN Fail("arity")
    ELSE Struct(<<
        <<"id",                  Ok(id)>>,
        <<"name_ident",          Ok(Fld(fields, 0))>>,
        <<"name_unident",        Ok(Fld(fields, 1))>>,
        <<"name_plural_ident",   Ok(Fld(fields, 2))>>,
        <<"name_plural_unident", Ok(Fld(fields, 3))>>,
        <<"kind",                ParseEnum(Fld(fields, 4), MonsterKindCodes)>>,
        <<"xl_expr",             Ok(Fld(fields, 5))>>,
        <<"hp_expr",             Ok(Fld(fields, 7))>>,
        <<"mp_expr",             Ok(Fld(fields, 8))>>,
        <<"ac_expr",             Ok(Fld(fields, 9))>>,
        <<"stats",               NumList(ParseU32List(Fld(fields, 10)))>>,
        <<"damage_expr",         Ok(Fld(fields, 12))>>,
        <<"attack_count_expr",   Ok(Fld(fields, 13))>>,
        <<"attack_debuff_mask",  monster_parse_attack_debuff_mask(Fld(fields, 19))>>,
        <<"poison_damage",       Num(ParseU32(Fld(fields, 14)))>>,
        <<"drain_xl",            Num(ParseU32(Fld(fields, 15)))>>,
        <<"spell_levels",        NumList(ParseU32List(Fld(fields, 18)))>>,
        <<"healing",             Num(ParseI32(Fld(fields, 16)))>>,
        <<"resist_mask",         monster_parse_resist_mask(Fld(fields, 22))>>,
        <<"spell_cancel",        Num(ParseI32(Fld(fields, 17)))>>,
        <<"vuln_mask",           monster_parse_resist_mask(Fld(fields, 23))>>,
        <<"can_flee",            Bool(ParseBool(Fld(fields, 25)))>>,
        <<"can_call",            Bool(ParseBool(Fld(fields, 24)))>>,
        <<"friendly_prob",       Num(ParseU32(Fld(fields, 26)))>>,
        <<"count_in_group_expr", Ok(Fld(fields, 27))>>,
        <<"follower",            parse_follower(Fld(fields, 29), Fld(fields, 28))>>,
        <<"xp_expr",             Ok(Fld(fields, 6))>>,
        <<"is_invincible",       Bool(ParseBool(Fld(fields, 39)))>>,
        <<"attack_twice",        Bool(ParseBool(Fld(fields, 40)))>>,
        <<"description",         Ok(Fld(fields, 45))>>,
        <<"hide_in_catalog",     Bool(ParseBool(Fld(fields, 48)))>> >>)

\* mutant: a Monster text must have exactly 49 fields
MonsterParseExactArity(id, text) ==
    IF Len(split(text, Sep)) # 49 THEN Fail("arity")
    ELSE MonsterFromFields(id, split(text, Sep))

MonsterParse(id, text) == MonsterFromFields(id, split(text, Sep))

(***************************************************************************)
(* Inputs.  A plaintext is assembled from slots; every slot offers the     *)
(* variants of one line (absent, well-formed, malformed) and an input      *)
(* deviates from one of four baselines in at most MaxDeviations slots.     *)
(***************************************************************************)
MaxDeviations == 1

\* Abi, Race, Class and Monster keys are offered for the indices below MaxEntities
MaxEntities == 1

\* SpellKind and Item keys are offered for the indices below MaxGapEntities
MaxGapEntities == 4

\* single-line plaintexts: every string over KvsAlphabet up to this length
MaxLineLen == 5

\* multi-line plaintexts: up to this many lines of KvsPool
MaxLines == 3

K_Version == <<"V", "e", "r", "s", "i", "o", "n">>

K_ReadKeyword == <<"R", "e", "a", "d", "K", "e", "y", "w", "o", "r", "d">>

K_GameTitle == <<"G", "a", "m", "e", "T", "i", "t", "l", "e">>

K_SpellLvNum == <<"S", "p", "e", "l", "l", "L", "v", "N", "u", "m">>

K_ExclusiveUseOfMonsters == <<"E", "x", "c", "l", "u", "s", "i", "v", "e", "U", "s", "e", "O", "f", "M", "o", "n", "s", "t", "e", "r", "s">>

P_Abi == <<"A", "b", "i">>

P_Race == <<"R", "a", "c", "e">>

P_Class == <<"C", "l", "a", "s", "s">>

P_SpellKind == <<"S", "p", "e", "l", "l", "K", "i", "n", "d">>

P_Item == <<"I", "t", "e", "m">>

P_Monster == <<"M", "o", "n", "s", "t", "e", "r">>

RECURSIVE Join(_, _)
Join(parts, sep) ==
    IF Len(parts) = 0 THEN <<>>
    ELSE IF Len(parts) = 1 THEN parts[1]
    ELSE parts[1] \o sep \o Join(Tail(parts), sep)

RECURSIVE Concat(_)
Concat(parts) == IF Len(parts) = 0 THEN <<>> ELSE parts[1] \o Concat(Tail(parts))

\* the line `key = "value"` with its terminator
Line(key, value) == key \o <<" ", "=", " ", "\"">> \o value \o <<"\"", "\n">>

E == <<>>

Z == <<"0">>

StatFields == <<<<"S", "T", "R">>, <<"S">>, <<"1">>, <<"-", "1">>, S_false, E, E, S_true>>

RaceFields == <<<<"E", "l", "f">>, <<"E">>, <<"8", ",", "9">>, <<"9", "0">>, Z, Z, Z,
                E, E, <<"1", "a">>, E, E, E, <<"+", "2">>>>

ClassFields == <<<<"M", "a", "g", "e">>, <<"M">>, <<"0", "1">>, <<"0", "2">>, <<"8", ",", "9">>,
                 E, E, E, <<",", ",">>, <<"1">>, Z, S_true, Z, <<"a">>, E,
                 E, E, E, Z, E, E>>

SpellFields == <<<<"H", "a", "l", "i", "t", "o">>, E, E, E, E, S_false, <<"1">>, S_false>>

\* a realm named A with one level holding one spell
RealmText == <<"A">> \o <<"<", "-", "-", ">">> \o Join(SpellFields, Sep)

ItemFields == <<<<"i", "t", "e", "m", "[", "7", "]">>, <<"?">>, <<"6">>, <<"1", "0", "0">>,
                <<"-", "1">>, <<"c", "l", "a", "s", "s", "[", "3", "]", ",", "-">>, <<"-", ",", "1">>, Z, Z, Z,
                <<",", ",">>, E, Z, Z, <<"2">>, E, <<"e">>, E, Z, Z,
                E, <<"-", "1">>, <<"a">>, E, E, E, Z, E, S_true, S_true,
                S_false, S_false, <<"1", ",", "-", "1">>, S_false, Z, S_false, S_false, E, E>>

MonsterFields == <<<<"O", "r", "c">>, E, E, E, <<"1", "4">>, E, E, E, E, E,
                   <<"8">>, E, E, E, Z, Z, Z, Z, <<"1">>, <<"2">>,
                   E, E, <<"a">>, E, S_true, S_false, Z, E, E, E,
                   E, E, E, E, E, E, E, E, E, S_false,
                   S_false, E, E, E, E, E, E, E, S_false>>

\* malformed variants: one different kind of field fault per entity type
BadStatText == Join([StatFields EXCEPT ![3] = <<"x">>], Sep)

BadRaceText == Join(SubSeq(RaceFields, 1, 13), Sep)

BadClassText == Join([ClassFields EXCEPT ![3] = <<"2">>], Sep)

BadRealmText == <<"A">>

BadItemText == Join([ItemFields EXCEPT ![29] = <<"1">>], Sep)

BadMonsterText == Join([MonsterFields EXCEPT ![5] = <<"1", "5">>], Sep)

\* the variants of an indexed entity line: absent, well-formed, malformed
EntitySlot(prefix, n, good, bad) ==
    <<E, Line(SeqKey(prefix, n), good), Line(SeqKey(prefix, n), bad)>>

EntitySlots(prefix, count, good, bad) ==
    [n \in 1..count |-> EntitySlot(prefix, n - 1, good, bad)]

\* an Item whose equip masks name class 35 and race 35 and whose broken-item
\* reference names item 9, none of which an offered store has
DanglingItemFields ==
    [ItemFields EXCEPT ![6] = <<"c", "l", "a", "s", "s", "[", "3", "5", "]", ",",
                                "r", "a", "c", "e", "[", "3", "5", "]">>,
                       ![22] = <<"i", "t", "e", "m", "[", "9", "]">>]

\* a Monster with spell levels for more realms than an offered store has
DanglingMonsterFields ==
    [MonsterFields EXCEPT ![19] = <<"1", ",", "0", ",", "0", ",", "0", ",", "0", ",", "0", ",", "2">>]

Slots ==
    <<  <<E, Line(K_Version, <<"1", ".", "2">>)>>,
        <<E, Line(K_ReadKeyword, <<"k", "w">>)>>,
        <<E, Line(K_GameTitle, <<"A", " ", "\"", "B", "\"">>)>> >>
    \o EntitySlots(P_Abi, MaxEntities, Join(StatFields, Sep), BadStatText)
    \o EntitySlots(P_Race, MaxEntities, Join(RaceFields, Sep), BadRaceText)
    \o EntitySlots(P_Class, MaxEntities, Join(ClassFields, Sep), BadClassText)
    \o << <<E, Line(K_SpellLvNum, <<"1">>), Line(K_SpellLvNum, <<"-", "1">>)>>,
          <<E, Line(K_ExclusiveUseOfMonsters, S_true), Line(K_ExclusiveUseOfMonsters, S_false),
            Line(K_ExclusiveUseOfMonsters, <<"1">>)>> >>
    \o EntitySlots(P_SpellKind, MaxGapEntities, RealmText, BadRealmText)
    \o EntitySlots(P_Item, MaxGapEntities, Join(ItemFields, Sep), BadItemText)
    \o EntitySlots(P_Monster, MaxEntities, Join(MonsterFields, Sep), BadMonsterText)
    \o << <<E,
            <<"F", "O", "O", " ", "b", "a", "r", "\"">> \o <<"\n">>,
            Line(K_Version, <<"2">>),
            <<" ", "\t", "\r", "\n">>,
            <<"I", "t", "e", "m", "9", " ", "=", " ", "\"", "x">>>> >>

NSlots == Len(Slots)

\* baseline: every offered line present and well-formed, no trailing junk
FullChoice == [n \in 1..NSlots |-> IF n = NSlots THEN 1 ELSE 2]

\* baseline: the scalar keys, the spell header and one stat, race and class
MinimalChoice ==
    [n \in 1..NSlots |->
        IF n \in {1, 2, 3, 4, 4 + MaxEntities, 4 + 2 * MaxEntities,
                  4 + 3 * MaxEntities, 5 + 3 * MaxEntities} THEN 2 ELSE 1]

\* baseline: MinimalChoice without the two spell header keys
BareChoice ==
    [n \in 1..NSlots |->
        IF n \in {4 + 3 * MaxEntities, 5 + 3 * MaxEntities} THEN 1 ELSE MinimalChoice[n]]

\* the choices of one entity sequence whose index 0 is well-formed and whose
\* later indices are malformed
TailFaulty(count) == [n \in 1..count |-> IF n = 1 THEN 2 ELSE 3]

\* baseline: every line present, every entity past index 0 malformed
TailFaultyChoice ==
    <<2, 2, 2>> \o TailFaulty(MaxEntities) \o TailFaulty(MaxEntities) \o TailFaulty(MaxEntities)
    \o <<2, 2>> \o TailFaulty(MaxGapEntities) \o TailFaulty(MaxGapEntities)
    \o TailFaulty(MaxEntities) \o <<1>>

Baselines == {FullChoice, MinimalChoice, BareChoice, TailFaultyChoice}

Deviations == UNION {{<<n, v>> : v \in 1..Len(Slots[n])} : n \in 1..NSlots}

RECURSIVE DevSets(_)
DevSets(k) ==
    IF k = 0 THEN {{}}
    ELSE LET prev == DevSets(k - 1)
         IN  prev \cup {D \cup {d} : D \in prev, d \in Deviations}

Deviate(base, D) ==
    [n \in 1..NSlots |-> IF \E d \in D : d[1] = n THEN (CHOOSE d \in D : d[1] = n)[2] ELSE base[n]]

Choices ==
    {Deviate(base, D) : base \in Baselines,
                        D \in {X \in DevSets(MaxDeviations) :
                                 \A d1, d2 \in X : d1[1] = d2[1] => d1 = d2}}

Build(choice) == Concat([n \in 1..NSlots |-> Slots[n][choice[n]]])

KvsAlphabet == {"K", "=", "\"", " ", "x"}

RECURSIVE Strings(_)
Strings(n) ==
    IF n = 0 THEN {<<>>}
    ELSE LET prev == Strings(n - 1)
         IN  prev \cup {Append(t, c) : t \in prev, c \in KvsAlphabet}

KvsPool == {<<"K", "=", "\"", "a", "\"">>, <<"K", "=", "\"", "b", "\"">>, <<"J", "=", "\"", "a", "\"">>, <<" ", "K", " ", "=", " ", "\"", "a", " ", "b", "\"", " ">>, <<"K", "=", "\"", "a", "\"", "b", "\"">>, <<"K", " ", "a", "\"">>, <<"K", "=", "\"">>, <<>>,
            <<"J", "=", "\"", "\"", "\r">>}

RECURSIVE LineSeqs(_)
LineSeqs(n) ==
    IF n = 0 THEN {<<>>}
    ELSE LET prev == LineSeqs(n - 1)
         IN  prev \cup {t \o l \o <<"\n">> : t \in prev, l \in KvsPool}

\* FullChoice with the line of item 0 (when item is TRUE) and of monster 0
\* (when monster is TRUE) replaced by the one with dangling references
DanglingInput(item, monster) ==
    Concat([n \in 1..NSlots |->
        IF item /\ n = 6 + 3 * MaxEntities + MaxGapEntities
        THEN Line(SeqKey(P_Item, 0), Join(DanglingItemFields, Sep))
        ELSE IF monster /\ n = 6 + 3 * MaxEntities + 2 * MaxGapEntities
        THEN Line(SeqKey(P_Monster, 0), Join(DanglingMonsterFields, Sep))
        ELSE Slots[n][FullChoice[n]]])

DanglingInputs ==
    {DanglingInput(TRUE, TRUE), DanglingInput(TRUE, FALSE), DanglingInput(FALSE, TRUE)}

Inputs ==
    {Build(c) : c \in Choices} \cup Strings(MaxLineLen) \cup LineSeqs(MaxLines)
    \cup DanglingInputs

(***************************************************************************)
(* The state machine of Scenario::load_from_plaintext                      *)
(***************************************************************************)
None == [some |-> FALSE, val |-> <<>>]

Some(v) == [some |-> TRUE, val |-> v]

NoResult == [tag |-> "None", scenario |-> <<>>, err |-> <<>>]

\* mutant: the wrapper names the entity by its 1-based position
ErrOneBased(stage, id, cause, detail) ==
    [tag |-> "Err", scenario |-> <<>>,
     err |-> [stage |-> stage, id |-> id + 1, cause |-> cause, detail |-> detail]]

\* anyhow error: the stage that raised it, the entity id of the
\* "<entity> <id>: " wrapper (-1 without wrapper), the cause and its text
Err(stage, id, cause, detail) ==
    [tag |-> "Err", scenario |-> <<>>,
     err |-> [stage |-> stage, id |-> id, cause |-> cause, detail |-> detail]]

Init ==
    /\ plaintext \in Inputs
    /\ pc = "parse"
    /\ pos = 1
    /\ kvs = EmptyKvs
    /\ parsed = "Pending"
    /\ warnings = <<>>
    /\ editor_version = None
    /\ scenario_id = None
    /\ title = None
    /\ i = 0
    /\ enum_count = 0
    /\ peeked = None
    /\ header = None
    /\ acc = <<>>
    /\ stats = None
    /\ races = None
    /\ classes = None
    /\ spell_realms = None
    /\ items = None
    /\ monsters = None
    /\ result = NoResult
    /\ unit = ""
    /\ unit_text = <<>>
    /\ decoded = None
    /\ polled = <<>>
    /\ model = [plaintext |-> None, scenario |-> None, page |-> None]
    /\ input_file = <<>>
    /\ reads = <<>>
    /\ panicked = FALSE

loadLocals == <<editor_version, scenario_id, title, stats, races, classes,
                spell_realms, items, monsters>>

iterVars == <<i, enum_count, peeked, header, acc>>

\* kvs::parse, one iteration of `for line in plaintext.lines()`
ParseNextLine ==
    /\ pc = "parse"
    /\ pos <= Len(plaintext)
    /\ LET r == ParseLine(LineAt(plaintext, pos))
       IN  /\ pos' = LineEnd(plaintext, pos) + 1
           /\ IF r.tag = "Err"
              THEN /\ parsed' = "Err"
                   /\ kvs' = EmptyKvs
                   /\ result' = Err("kvs", -1, r.check, r.text)
                   /\ pc' = "done"
                   /\ UNCHANGED warnings
              ELSE /\ IF r.tag = "Entry"
                      THEN /\ kvs' = KvsInsert(kvs, r.key, r.value)
                           /\ warnings' = IF r.key \in DOMAIN kvs
                                          THEN Append(warnings, <<r.key, kvs[r.key]>>)
                                          ELSE warnings
                      ELSE UNCHANGED <<kvs, warnings>>
                   /\ UNCHANGED <<parsed, result, pc>>
    /\ UNCHANGED <<unitVars, polled, viewVars, plaintext, loadLocals, iterVars>>

\* kvs::parse: the lines are exhausted, Ok(kvs)
ParseReturn ==
    /\ pc = "parse"
    /\ pos > Len(plaintext)
    /\ parsed' = "Ok"
    /\ pc' = "version"
    /\ UNCHANGED <<unitVars, polled, viewVars, plaintext, pos, kvs, warnings, loadLocals, iterVars, result>>

\* mutant: an absent key does not stop the load
GetScalarDeferred(at, key, next) ==
    /\ pc = at
    /\ pc' = next
    /\ UNCHANGED result
    /\ UNCHANGED <<unitVars, polled, viewVars, plaintext, pos, kvs, parsed, warnings, iterVars,
                   stats, races, classes, spell_realms, items, monsters>>

\* kvs.get_expect(key)?.to_owned()
GetScalar(at, key, next) ==
    LET r == get_expect(kvs, key)
    IN  /\ pc = at
        /\ IF r.ok
           THEN /\ pc' = next
                /\ UNCHANGED result
           ELSE /\ pc' = "done"
                /\ result' = Err(at, -1, "missing_key", key)
        /\ UNCHANGED <<unitVars, polled, viewVars, plaintext, pos, kvs, parsed, warnings, iterVars,
                       stats, races, classes, spell_realms, items, monsters>>

GetVersion ==
    /\ GetScalar("version", K_Version, "read_keyword")
    /\ editor_version' = IF get_expect(kvs, K_Version).ok THEN Some(get_expect(kvs, K_Version).val) ELSE None
    /\ UNCHANGED <<scenario_id, title>>

GetReadKeyword ==
    /\ GetScalar("read_keyword", K_ReadKeyword, "game_title")
    /\ scenario_id' = IF get_expect(kvs, K_ReadKeyword).ok THEN Some(get_expect(kvs, K_ReadKeyword).val) ELSE None
    /\ UNCHANGED <<editor_version, title>>

GetGameTitle ==
    /\ GetScalar("game_title", K_GameTitle, "stats")
    /\ title' = IF get_expect(kvs, K_GameTitle).ok THEN Some(get_expect(kvs, K_GameTitle).val) ELSE None
    /\ UNCHANGED <<editor_version, scenario_id>>

\* entry of a *_from_kvs function with a plain for loop:
\* Vec::new() and kvs.iter_seq(prefix).enumerate()
FromKvsCall(at, loop) ==
    /\ pc = at
    /\ pc' = loop
    /\ i' = 0
    /\ enum_count' = 0
    /\ acc' = <<>>
    /\ UNCHANGED <<unitVars, polled, viewVars, plaintext, pos, kvs, parsed, warnings, loadLocals, peeked, header, result>>

\* mutant: Enumerate hands out 1-based indices
EnumNextOneBased(prefix, n, c) ==
    LET p == IterPoll(kvs, prefix, n)
    IN  [some |-> p.some, idx |-> c + 1, val |-> p.val]

\* Enumerate::next over the from_fn closure: polls with counter i; a yielded
\* value is paired with enum_count
EnumNext(prefix, n, c) ==
    LET p == IterPoll(kvs, prefix, n)
    IN  [some |-> p.some, idx |-> c, val |-> p.val]

\* parse(id, text) as each *_from_kvs calls it: the decoder of its own module
Decode(prefix, id, text) ==
    CASE prefix = P_Abi     -> StatParse(id, text)
      [] prefix = P_Race    -> RaceParse(id, text)
      [] prefix = P_Class   -> ClassParse(id, text)
      [] prefix = P_Item    -> ItemParse(id, text)
      [] prefix = P_Monster -> MonsterParse(id, text)

\* what the loop's iterator yields next: Enumerate over the from_fn closure
Polled(prefix) == EnumNext(prefix, i, enum_count)

\* one iteration of `for (i, text) in kvs.iter_seq(prefix).enumerate()`:
\* item is what the iterator yielded, r is parse(id, text) of the loop's
\* module; .map_err(..)? and push
ForStep(loop, entity, item, r) ==
    /\ pc = loop
    /\ item.some
    /\ i' = i + 1
    /\ enum_count' = enum_count + 1
    /\ IF r.ok
       THEN /\ acc' = Append(acc, r.val)
            /\ UNCHANGED <<pc, result>>
       ELSE /\ acc' = <<>>
            /\ pc' = "done"
            /\ result' = Err(entity, item.idx, r.cause, item.val)
    /\ UNCHANGED <<unitVars, polled, viewVars, plaintext, pos, kvs, parsed, warnings, loadLocals, peeked, header>>

\* the iterator returned None: the loop ends and the function returns Ok(vec)
ForEnd(loop, prefix, next) ==
    /\ pc = loop
    /\ ~EnumNext(prefix, i, enum_count).some
    /\ i' = i + 1
    /\ pc' = next
    /\ UNCHANGED <<unitVars, polled, viewVars, plaintext, pos, kvs, parsed, warnings, editor_version, scenario_id,
                   title, enum_count, peeked, header, acc, result>>

StatsCall == FromKvsCall("stats", "stats_loop")

StatsStep ==
    ForStep("stats_loop", "stat", Polled(P_Abi),
            StatParse(Polled(P_Abi).idx, Polled(P_Abi).val))

StatsReturn ==
    /\ ForEnd("stats_loop", P_Abi, "races")
    /\ stats' = Some(acc)
    /\ UNCHANGED <<races, classes, spell_realms, items, monsters>>

RacesCall == FromKvsCall("races", "races_loop")

RacesStep ==
    ForStep("races_loop", "race", Polled(P_Race),
            RaceParse(Polled(P_Race).idx, Polled(P_Race).val))

RacesReturn ==
    /\ ForEnd("races_loop", P_Race, "classes")
    /\ races' = Some(acc)
    /\ UNCHANGED <<stats, classes, spell_realms, items, monsters>>

ClassesCall == FromKvsCall("classes", "classes_loop")

ClassesStep ==
    ForStep("classes_loop", "class", Polled(P_Class),
            ClassParse(Polled(P_Class).idx, Polled(P_Class).val))

ClassesReturn ==
    /\ ForEnd("classes_loop", P_Class, "spell_realms")
    /\ classes' = Some(acc)
    /\ UNCHANGED <<stats, races, spell_realms, items, monsters>>

\* mutant: the two header keys are read only when SpellKind0 is present
SpellRealmsCallLazyHeader ==
    LET lv   == get_expect(kvs, K_SpellLvNum)
        lvn  == ParseU32(lv.val)
        ex   == get_expect(kvs, K_ExclusiveUseOfMonsters)
        exb  == ParseBool(ex.val)
        fail == IF SeqKey(P_SpellKind, 0) \notin DOMAIN kvs THEN <<"", <<>>>>
                ELSE IF ~lv.ok THEN <<"missing_key", K_SpellLvNum>>
                ELSE IF ~lvn.ok THEN <<"number", lv.val>>
                ELSE IF ~ex.ok THEN <<"missing_key", K_ExclusiveUseOfMonsters>>
                ELSE IF ~exb.ok THEN <<"bool", ex.val>>
                ELSE <<"", <<>>>>
    IN  /\ pc = "spell_realms"
        /\ IF fail[1] = ""
           THEN /\ header' = Some([level_count |-> [neg |-> FALSE, mag |-> <<"0">>],
                                   last_realm_is_only_for_monster |-> FALSE])
                /\ pc' = "spell_realms_loop"
                /\ UNCHANGED result
           ELSE /\ pc' = "done"
                /\ result' = Err("spell_realms", -1, fail[1], fail[2])
                /\ UNCHANGED header
        /\ i' = 0
        /\ enum_count' = 0
        /\ peeked' = None
        /\ acc' = <<>>
        /\ UNCHANGED <<unitVars, polled, viewVars, plaintext, pos, kvs, parsed, warnings, loadLocals>>

\* spell_realms_from_kvs up to the loop: the two header keys, Vec::new() and
\* kvs.iter_seq("SpellKind").enumerate().peekable()
SpellRealmsCall ==
    LET lv   == get_expect(kvs, K_SpellLvNum)
        lvn  == ParseU32(lv.val)
        ex   == get_expect(kvs, K_ExclusiveUseOfMonsters)
        exb  == ParseBool(ex.val)
        fail == IF ~lv.ok THEN <<"missing_key", K_SpellLvNum>>
                ELSE IF ~lvn.ok THEN <<"number", lv.val>>
                ELSE IF ~ex.ok THEN <<"missing_key", K_ExclusiveUseOfMonsters>>
                ELSE IF ~exb.ok THEN <<"bool", ex.val>>
                ELSE <<"", <<>>>>
    IN  /\ pc = "spell_realms"
        /\ IF fail[1] = ""
           THEN /\ header' = Some([level_count |-> [neg |-> FALSE, mag |-> lvn.mag],
                                   last_realm_is_only_for_monster |-> exb.val])
                /\ pc' = "spell_realms_loop"
                /\ UNCHANGED result
           ELSE /\ pc' = "done"
                /\ result' = Err("spell_realms", -1, fail[1], fail[2])
                /\ UNCHANGED header
        /\ i' = 0
        /\ enum_count' = 0
        /\ peeked' = None
        /\ acc' = <<>>
        /\ UNCHANGED <<unitVars, polled, viewVars, plaintext, pos, kvs, parsed, warnings, loadLocals>>

\* Peekable::next: the buffered item if there is one, else a poll.
\* The result carries the counters after the call.
PeekableNext ==
    IF peeked.some THEN [item |-> peeked.val, i |-> i, count |-> enum_count]
    ELSE LET e == EnumNext(P_SpellKind, i, enum_count)
         IN  [item |-> e, i |-> i + 1, count |-> IF e.some THEN enum_count + 1 ELSE enum_count]

\* mutant: every realm takes the global flag, last or not
SpellRealmsStepFlagsAll ==
    LET nx      == PeekableNext
        pk      == EnumNext(P_SpellKind, nx.i, nx.count)
        r       == SpellRealmParse(header.val.level_count,
                                   header.val.last_realm_is_only_for_monster,
                                   nx.item.idx, nx.item.val)
    IN  /\ pc = "spell_realms_loop"
        /\ nx.item.some
        /\ i' = nx.i + 1
        /\ enum_count' = IF pk.some THEN nx.count + 1 ELSE nx.count
        /\ peeked' = Some(pk)
        /\ IF r.ok
           THEN /\ acc' = Append(acc, r.val)
                /\ UNCHANGED <<pc, result>>
           ELSE /\ acc' = <<>>
                /\ pc' = "done"
                /\ result' = Err("spell realm", nx.item.idx, r.cause, nx.item.val)
        /\ UNCHANGED <<unitVars, polled, viewVars, plaintext, pos, kvs, parsed, warnings, loadLocals, header>>

\* one iteration of `while let Some((i, text)) = it.next()`: it.peek() polls
\* the iterator once more and buffers what it returned
SpellRealmsStep ==
    LET nx      == PeekableNext
        pk      == EnumNext(P_SpellKind, nx.i, nx.count)
        is_last == ~pk.some
        r       == SpellRealmParse(header.val.level_count,
                                   header.val.last_realm_is_only_for_monster /\ is_last,
                                   nx.item.idx, nx.item.val)
    IN  /\ pc = "spell_realms_loop"
        /\ nx.item.some
        /\ i' = nx.i + 1
        /\ enum_count' = IF pk.some THEN nx.count + 1 ELSE nx.count
        /\ peeked' = Some(pk)
        /\ IF r.ok
           THEN /\ acc' = Append(acc, r.val)
                /\ UNCHANGED <<pc, result>>
           ELSE /\ acc' = <<>>
                /\ pc' = "done"
                /\ result' = Err("spell realm", nx.item.idx, r.cause, nx.item.val)
        /\ UNCHANGED <<unitVars, polled, viewVars, plaintext, pos, kvs, parsed, warnings, loadLocals, header>>

\* it.next() returned None: Ok(realms)
SpellRealmsReturn ==
    LET nx == PeekableNext
    IN  /\ pc = "spell_realms_loop"
        /\ ~nx.item.some
        /\ i' = nx.i
        /\ peeked' = None
        /\ spell_realms' = Some(acc)
        /\ pc' = "items"
        /\ UNCHANGED <<unitVars, polled, viewVars, plaintext, pos, kvs, parsed, warnings, editor_version, scenario_id,
                       title, enum_count, header, acc, result,
                       stats, races, classes, items, monsters>>

ItemsCall == FromKvsCall("items", "items_loop")

\* mutant: an item that fails to decode is left out and the loop goes on
ItemsStepSkipsFailed ==
    /\ pc = "items_loop"
    /\ Polled(P_Item).some
    /\ i' = i + 1
    /\ enum_count' = enum_count + 1
    /\ acc' = IF ItemParse(Polled(P_Item).idx, Polled(P_Item).val).ok
              THEN Append(acc, ItemParse(Polled(P_Item).idx, Polled(P_Item).val).val)
              ELSE acc
    /\ UNCHANGED <<pc, result>>
    /\ UNCHANGED <<unitVars, polled, viewVars, plaintext, pos, kvs, parsed, warnings, loadLocals, peeked, header>>

ItemsStep ==
    ForStep("items_loop", "item", Polled(P_Item),
            ItemParse(Polled(P_Item).idx, Polled(P_Item).val))

ItemsReturn ==
    /\ ForEnd("items_loop", P_Item, "monsters")
    /\ items' = Some(acc)
    /\ UNCHANGED <<stats, races, classes, spell_realms, monsters>>

MonstersCall == FromKvsCall("monsters", "monsters_loop")

MonstersStep ==
    ForStep("monsters_loop", "monster", Polled(P_Monster),
            MonsterParse(Polled(P_Monster).idx, Polled(P_Monster).val))

MonstersReturn ==
    /\ ForEnd("monsters_loop", P_Monster, "return")
    /\ monsters' = Some(acc)
    /\ UNCHANGED <<stats, races, classes, spell_realms, items>>

\* mutant: a broken-item reference to an item that was not decoded is refused
LoadReturnValidatingItems ==
    /\ pc = "return"
    /\ pc' = "done"
    /\ result' =
          IF \E n \in 1..Len(items.val) :
                /\ items.val[n].broken_item_id.some
                /\ ~DecLeq(items.val[n].broken_item_id.val, ToDec(Len(items.val) - 1))
          THEN Err("item", -1, "dangling_reference", <<>>)
          ELSE [tag |-> "Ok",
                scenario |-> [editor_version |-> editor_version.val,
                              id             |-> scenario_id.val,
                              title          |-> title.val,
                              stats          |-> stats.val,
                              races          |-> races.val,
                              classes        |-> classes.val,
                              spell_realms   |-> spell_realms.val,
                              items          |-> items.val,
                              monsters       |-> monsters.val],
                err |-> <<>>]
    /\ UNCHANGED <<unitVars, polled, viewVars, plaintext, pos, kvs, parsed, warnings, loadLocals, iterVars>>

\* Ok(Self { .. })
LoadReturn ==
    /\ pc = "return"
    /\ pc' = "done"
    /\ result' = [tag |-> "Ok",
                  scenario |-> [editor_version |-> editor_version.val,
                                id             |-> scenario_id.val,
                                title          |-> title.val,
                                stats          |-> stats.val,
                                races          |-> races.val,
                                classes        |-> classes.val,
                                spell_realms   |-> spell_realms.val,
                                items          |-> items.val,
                                monsters       |-> monsters.val],
                  err |-> <<>>]
    /\ UNCHANGED <<unitVars, polled, viewVars, plaintext, pos, kvs, parsed, warnings, loadLocals, iterVars>>

Next ==
    \/ ParseNextLine
    \/ ParseReturn
    \/ GetVersion
    \/ GetReadKeyword
    \/ GetGameTitle
    \/ StatsCall
    \/ StatsStep
    \/ StatsReturn
    \/ RacesCall
    \/ RacesStep
    \/ RacesReturn
    \/ ClassesCall
    \/ ClassesStep
    \/ ClassesReturn
    \/ SpellRealmsCall
    \/ SpellRealmsStep
    \/ SpellRealmsReturn
    \/ ItemsCall
    \/ ItemsStep
    \/ ItemsReturn
    \/ MonstersCall
    \/ MonstersStep
    \/ MonstersReturn
    \/ LoadReturn

Spec == Init /\ [][Next]_vars

(***************************************************************************)
(* The decoders called on their own.  Each parse function is a pure        *)
(* function of its text; UnitSpec draws a decoder and a text and applies   *)
(* the decoder once, leaving the load pipeline idle.                       *)
(***************************************************************************)
\* texts are offered with field counts within this distance of the expected one
MaxFieldDelta == 1

Units == {"stat::parse", "race::parse", "class::parse", "spell::parse_spell", "item::parse", "monster::parse"}

UnitFields ==
    [u \in Units |->
        CASE u = "stat::parse"    -> StatFields
          [] u = "race::parse"    -> RaceFields
          [] u = "class::parse"   -> ClassFields
          [] u = "spell::parse_spell"   -> SpellFields
          [] u = "item::parse"    -> ItemFields
          [] u = "monster::parse" -> MonsterFields]

\* the first n fields, padded with empty fields past the end
Resize(fields, n) == [k \in 1..n |-> IF k <= Len(fields) THEN fields[k] ELSE E]

\* the well-formed text cut or extended to a neighbouring field count
ResizedTexts(fields) ==
    {Join(Resize(fields, n), Sep) :
        n \in (Len(fields) - MaxFieldDelta)..(Len(fields) + MaxFieldDelta)}

\* the well-formed text with the field of 0-based index k replaced by v
Probe(fields, k, v) == Join([fields EXCEPT ![k + 1] = v], Sep)

\* mask fields are offered every string over MaskAlphabet up to this length
MaxMaskLen == 2

\* digits on both sides of every limit of the mask types (sex 2, alignment 3,
\* debuff 5, the unused resistance bit 9, the last defined bit 14 and bit 15),
\* an upper-case digit and a character that is no digit
MaskAlphabet == {"0", "1", "2", "3", "4", "5", "9", "a", "d", "e", "f", "A", "g"}

RECURSIVE MaskStrings(_)
MaskStrings(n) ==
    IF n = 0 THEN {<<>>}
    ELSE LET prev == MaskStrings(n - 1)
         IN  prev \cup {Append(t, c) : t \in prev, c \in MaskAlphabet}

\* the 0-based indices of the digit-per-bit mask fields of each text
MaskFields ==
    [u \in Units |->
        CASE u = "race::parse"    -> {9}
          [] u = "class::parse"   -> {2, 3, 13}
          [] u = "item::parse"    -> {16, 17, 22}
          [] u = "monster::parse" -> {19, 22, 23}
          [] OTHER                -> {}]

MaskTexts(u) ==
    {Probe(UnitFields[u], k, v) : k \in MaskFields[u], v \in MaskStrings(MaxMaskLen)}

\* Item curse field: one sub-field varied, the other the "-" sentinel, and
\* the shapes with no, one and two commas
CurseValues ==
    {v \o <<",", "-">> : v \in MaskStrings(MaxMaskLen) \cup {<<"-">>}}
    \cup {<<"-", ",">> \o v : v \in MaskStrings(MaxMaskLen)}
    \cup {<<>>, <<"-">>, <<"0">>, <<"0", ",", "1", ",", "0">>}

CurseTexts(u) ==
    IF u = "item::parse" THEN {Probe(ItemFields, 6, v) : v \in CurseValues} ELSE {}

\* Item attack-debuff field: the codes, their neighbours, the u8 limits and
\* texts that are no plain numeral
DebuffCodeValues ==
    {ToDec(n) : n \in 0..7}
    \cup {<<"2", "5", "5">>, <<"2", "5", "6">>, <<"x">>, E, <<"-", "1">>,
          <<"0", "2">>, <<"+", "2">>, <<"2", "x">>, <<"1", ",", "2">>}

\* equip tokens are offered with every id up to this one
MaxEquipId == 37

W_class == <<"c", "l", "a", "s", "s">>

W_race == <<"r", "a", "c", "e">>

\* the ids of equip tokens: 0..MaxEquipId, one with a leading zero, and the
\* u32 limits
EquipIds ==
    {ToDec(n) : n \in 0..MaxEquipId} \cup {<<"0", "5">>, U32Max, SubSeq(U32Max, 1, 9) \o <<"6">>}

EquipToken(word, id) == [word |-> word, id |-> id]

\* token lists: every single token of either word, and some lists of two
EquipTokenLists ==
    {<<EquipToken(w, id)>> : w \in {W_class, W_race}, id \in EquipIds}
    \cup {<<EquipToken(w, ToDec(p[1])), EquipToken(w, ToDec(p[2]))>> :
             w \in {W_class, W_race},
             p \in {<<0, 5>>, <<35, 32>>, <<5, 5>>, <<1, 36>>, <<36, 1>>}}
    \cup {<<EquipToken(W_class, <<"1">>), EquipToken(W_race, <<"2">>)>>,
          <<EquipToken(W_race, <<"1">>), EquipToken(W_class, <<"2">>)>>}

\* a token list placed in the class (half 1) or the race (half 2) sub-field
EquipProbes == [half : {1, 2}, tokens : EquipTokenLists]

TokenText(t) == t.word \o <<"[">> \o t.id \o <<"]">>

\* the equip field of probe p: its tokens joined by "<+>", the other
\* sub-field being the "-" sentinel
EquipValue(p) ==
    LET list == Join([n \in 1..Len(p.tokens) |-> TokenText(p.tokens[n])], <<"<", "+", ">">>)
    IN  IF p.half = 1 THEN list \o <<",", "-">> ELSE <<"-", ",">> \o list

\* sub-field texts that are no token list
EquipMalformed ==
    {W_class \o <<"[", "]">>, W_class \o <<"[", "1">>, <<"C">> \o Tail(W_class) \o <<"[", "1", "]">>,
     <<" ">> \o W_class \o <<"[", "1", "]">>, W_class \o <<"[", "1", "]", "<", "+", ">">>,
     W_class \o <<"[", "-", "1", "]">>, W_class \o <<"[", "+", "1", "]">>, <<"1">>, E}

EquipValues ==
    {EquipValue(p) : p \in EquipProbes} \cup {v \o <<",", "-">> : v \in EquipMalformed}

\* equip fields made of sentinels: empty, both sub-fields "-", one "-" with no
\* comma, two empty sub-fields
EquipSentinelValues == {E, <<"-", ",", "-">>, <<"-">>, <<",">>}

W_item == <<"i", "t", "e", "m">>

\* the ids of broken-item references: small ones, one with a leading zero
\* and the u32 limits
BrokenItemIds ==
    {<<"0">>, <<"3">>, <<"0", "3">>, <<"1", "2">>, U32Max, SubSeq(U32Max, 1, 9) \o <<"6">>}

\* broken-item texts that have not the shape item[N]
BrokenItemMalformed ==
    {E, <<"-">>, <<"3">>, <<"-", "2">>, <<"+", "1">>, <<" ", "-", "1">>, <<"-", "1", " ">>,
     W_item \o <<"[", "]">>, W_item \o <<"[", "3">>, W_item \o <<"[", "3", "]", "x">>,
     <<"x">> \o W_item \o <<"[", "3", "]">>, <<"I">> \o Tail(W_item) \o <<"[", "3", "]">>,
     W_item \o <<"[", "-", "1", "]">>, W_class \o <<"[", "3", "]">>, W_item \o <<"3">>}

BrokenItemValues ==
    {<<"-", "1">>} \cup {W_item \o <<"[">> \o id \o <<"]">> : id \in BrokenItemIds}
    \cup BrokenItemMalformed

\* an Item with empty equip and curse fields and a linked broken item
SentinelItemFields ==
    [ItemFields EXCEPT ![6] = E, ![7] = E, ![22] = W_item \o <<"[", "3", "]">>]

\* the well-formed text of u with each of its probed fields varied in turn
FieldProbes(u) ==
    IF u = "item::parse"
    THEN {Probe(ItemFields, 14, v) : v \in DebuffCodeValues}
         \cup {Probe(ItemFields, 5, v) : v \in EquipValues \cup EquipSentinelValues}
         \cup {Probe(ItemFields, 21, v) : v \in BrokenItemValues}
         \cup {Join(SentinelItemFields, Sep)}
    ELSE {}

\* a text offered in an integer field with what its declared type makes of
\* it: ok, and then the sign and the canonical digits of the value
NumCase(text, ok, neg, mag) == [text |-> text, ok |-> ok, val |-> [neg |-> neg, mag |-> mag]]

\* the same for a comma-separated list: val is the sequence of the values
ListCase(text, ok, val) == [text |-> text, ok |-> ok, val |-> val]

\* i32: the limits, one past each, a value that would wrap to 1, signs, malformed
I32Cases ==
    {NumCase(<<"2", "1", "4", "7", "4", "8", "3", "6", "4", "7">>, TRUE, FALSE, <<"2", "1", "4", "7", "4", "8", "3", "6", "4", "7">>),
     NumCase(<<"2", "1", "4", "7", "4", "8", "3", "6", "4", "8">>, FALSE, FALSE, E),
     NumCase(<<"-", "2", "1", "4", "7", "4", "8", "3", "6", "4", "8">>, TRUE, TRUE, <<"2", "1", "4", "7", "4", "8", "3", "6", "4", "8">>),
     NumCase(<<"-", "2", "1", "4", "7", "4", "8", "3", "6", "4", "9">>, FALSE, FALSE, E),
     NumCase(<<"4", "2", "9", "4", "9", "6", "7", "2", "9", "7">>, FALSE, FALSE, E),
     NumCase(<<"-", "1">>, TRUE, TRUE, <<"1">>),
     NumCase(<<"+", "5">>, TRUE, FALSE, <<"5">>),
     NumCase(<<"-", "0">>, TRUE, FALSE, <<"0">>),
     NumCase(<<"0", "0", "7">>, TRUE, FALSE, <<"7">>),
     NumCase(E, FALSE, FALSE, E),
     NumCase(<<"x">>, FALSE, FALSE, E),
     NumCase(<<"1", ".", "5">>, FALSE, FALSE, E),
     NumCase(<<" ", "1">>, FALSE, FALSE, E),
     NumCase(<<"-">>, FALSE, FALSE, E)}

\* u32: the limit, values that would wrap to 0 and 1, negatives, malformed
U32Cases ==
    {NumCase(<<"4", "2", "9", "4", "9", "6", "7", "2", "9", "5">>, TRUE, FALSE, <<"4", "2", "9", "4", "9", "6", "7", "2", "9", "5">>),
     NumCase(<<"4", "2", "9", "4", "9", "6", "7", "2", "9", "6">>, FALSE, FALSE, E),
     NumCase(<<"4", "2", "9", "4", "9", "6", "7", "2", "9", "7">>, FALSE, FALSE, E),
     NumCase(<<"-", "1">>, FALSE, FALSE, E),
     NumCase(<<"-", "0">>, FALSE, FALSE, E),
     NumCase(<<"+", "5">>, TRUE, FALSE, <<"5">>),
     NumCase(<<"0", "0", "7">>, TRUE, FALSE, <<"7">>),
     NumCase(E, FALSE, FALSE, E),
     NumCase(<<"x">>, FALSE, FALSE, E),
     NumCase(<<"1", " ">>, FALSE, FALSE, E)}

\* u64: the limit, values that would wrap to 0 and 1, a value past u32, negatives
U64Cases ==
    {NumCase(<<"1", "8", "4", "4", "6", "7", "4", "4", "0", "7", "3", "7", "0", "9", "5", "5", "1", "6", "1", "5">>, TRUE, FALSE, <<"1", "8", "4", "4", "6", "7", "4", "4", "0", "7", "3", "7", "0", "9", "5", "5", "1", "6", "1", "5">>),
     NumCase(<<"1", "8", "4", "4", "6", "7", "4", "4", "0", "7", "3", "7", "0", "9", "5", "5", "1", "6", "1", "6">>, FALSE, FALSE, E),
     NumCase(<<"1", "8", "4", "4", "6", "7", "4", "4", "0", "7", "3", "7", "0", "9", "5", "5", "1", "6", "1", "7">>, FALSE, FALSE, E),
     NumCase(<<"4", "2", "9", "4", "9", "6", "7", "2", "9", "6">>, TRUE, FALSE, <<"4", "2", "9", "4", "9", "6", "7", "2", "9", "6">>),
     NumCase(<<"-", "1">>, FALSE, FALSE, E),
     NumCase(<<"+", "5">>, TRUE, FALSE, <<"5">>),
     NumCase(E, FALSE, FALSE, E),
     NumCase(<<"1", "x">>, FALSE, FALSE, E)}

\* lists of u32 with one bad element in each position
U32ListCases ==
    {ListCase(<<"1", ",", "2">>, TRUE, <<[neg |-> FALSE, mag |-> <<"1">>], [neg |-> FALSE, mag |-> <<"2">>]>>),
     ListCase(<<"7">>, TRUE, <<[neg |-> FALSE, mag |-> <<"7">>]>>),
     ListCase(<<"1", ",", "-", "1">>, FALSE, <<>>),
     ListCase(<<"1", ",", "x", ",", "3">>, FALSE, <<>>),
     ListCase(<<"1", ",", ",", "3">>, FALSE, <<>>),
     ListCase(<<"1", ",", "2", ",">>, FALSE, <<>>),
     ListCase(<<"4", "2", "9", "4", "9", "6", "7", "2", "9", "6", ",", "1">>, FALSE, <<>>),
     ListCase(<<"4", "2", "9", "4", "9", "6", "7", "2", "9", "5", ",", "0">>, TRUE, <<[neg |-> FALSE, mag |-> <<"4", "2", "9", "4", "9", "6", "7", "2", "9", "5">>], [neg |-> FALSE, mag |-> <<"0">>]>>)}

\* lists of i32
I32ListCases ==
    {ListCase(<<"1", ",", "-", "1">>, TRUE, <<[neg |-> FALSE, mag |-> <<"1">>], [neg |-> TRUE, mag |-> <<"1">>]>>),
     ListCase(<<"1", ",", "x">>, FALSE, <<>>),
     ListCase(<<"2", "1", "4", "7", "4", "8", "3", "6", "4", "8", ",", "1">>, FALSE, <<>>),
     ListCase(<<"1", ",", "-", "2", "1", "4", "7", "4", "8", "3", "6", "4", "9">>, FALSE, <<>>),
     ListCase(<<",", "1">>, FALSE, <<>>),
     ListCase(<<"-", "2", "1", "4", "7", "4", "8", "3", "6", "4", "8">>, TRUE, <<[neg |-> TRUE, mag |-> <<"2", "1", "4", "7", "4", "8", "3", "6", "4", "8">>]>>)}

\* an integer field of a text: the decoder, the 0-based index, the name of
\* the decoded field and the cases offered in it
IntField(u, idx, name, cases) == [unit |-> u, idx |-> idx, name |-> name, cases |-> cases]

IntFields ==
    {IntField("item::parse", 4, "stock", I32Cases),
     IntField("item::parse", 3, "price", U64Cases),
     IntField("item::parse", 34, "poison_damage", U32Cases),
     IntField("item::parse", 32, "stats_bonus", I32ListCases),
     IntField("race::parse", 3, "lifetime", U32Cases),
     IntField("race::parse", 2, "stats", U32ListCases),
     IntField("class::parse", 4, "stats", U32ListCases),
     IntField("monster::parse", 10, "stats", U32ListCases),
     IntField("spell::parse_spell", 6, "cost_mp", U32Cases)}

IntTexts(u) ==
    UNION {{Probe(UnitFields[u], f.idx, c.text) : c \in f.cases} : f \in {g \in IntFields : g.unit = u}}

\* the well-formed text with the fields of 0-based indices k1 and k2 replaced
Probe2(fields, k1, v1, k2, v2) == Join([fields EXCEPT ![k1 + 1] = v1, ![k2 + 1] = v2], Sep)

\* Class dispel threshold (field 12): the u32 cases, zero in two spellings, one
ThresholdCases ==
    U32Cases \cup {NumCase(<<"0">>, TRUE, FALSE, <<"0">>), NumCase(<<"0", "0">>, TRUE, FALSE, <<"0">>),
                   NumCase(<<"1">>, TRUE, FALSE, <<"1">>)}

\* Class dispel mask (field 13): valid masks, an undefined bit, no digit
DispelMaskValues == {E, <<"a">>, <<"e", "0">>, <<"f">>, <<"g">>}

\* Monster follower id (field 29) and probability (field 28)
FollowerIdValues == {E, <<"m">>, <<"1", "+", "2">>}

FollowerProbCases == U32Cases \cup {NumCase(<<"3", "0">>, TRUE, FALSE, <<"3", "0">>)}

PairTexts(u) ==
    IF u = "class::parse"
    THEN {Probe2(ClassFields, 12, c.text, 13, v) : c \in ThresholdCases, v \in DispelMaskValues}
    ELSE IF u = "monster::parse"
    THEN {Probe2(MonsterFields, 29, v, 28, c.text) : v \in FollowerIdValues, c \in FollowerProbCases}
    ELSE {}

\* Monster texts, well-formed and not, with fields appended past the 49th
TrailingTexts(u) ==
    IF u = "monster::parse"
    THEN {t \o Sep \o tail :
            t \in {Join(MonsterFields, Sep), BadMonsterText,
                   Probe(MonsterFields, 22, <<"1", "b">>), Probe(MonsterFields, 48, <<"1">>)},
            tail \in {<<"x">>, <<"1", "<", ">">>, <<"<", ">", "f", "a", "l", "s", "e">>}}
    ELSE {}

UnitTexts(u) ==
    ResizedTexts(UnitFields[u]) \cup MaskTexts(u) \cup CurseTexts(u) \cup FieldProbes(u)
    \cup TrailingTexts(u) \cup IntTexts(u) \cup PairTexts(u)

UnitInit ==
    /\ unit \in Units
    /\ unit_text \in UnitTexts(unit)
    /\ decoded = None
    /\ polled = <<>>
    /\ model = [plaintext |-> None, scenario |-> None, page |-> None]
    /\ input_file = <<>>
    /\ reads = <<>>
    /\ panicked = FALSE
    /\ plaintext = <<>>
    /\ pc = "unit"
    /\ pos = 1
    /\ kvs = EmptyKvs
    /\ parsed = "Pending"
    /\ warnings = <<>>
    /\ editor_version = None
    /\ scenario_id = None
    /\ title = None
    /\ i = 0
    /\ enum_count = 0
    /\ peeked = None
    /\ header = None
    /\ acc = <<>>
    /\ stats = None
    /\ races = None
    /\ classes = None
    /\ spell_realms = None
    /\ items = None
    /\ monsters = None
    /\ result = NoResult

\* the call returns: r is what the decoder named u gives for unit_text
UnitCall(u, r) ==
    /\ unit = u
    /\ ~decoded.some
    /\ decoded' = Some(r)
    /\ UNCHANGED <<unit, unit_text, polled, viewVars, plaintext, pc, pos, kvs, parsed,
                   warnings, loadLocals, iterVars, result>>

CallStatParse == UnitCall("stat::parse", StatParse(0, unit_text))

CallRaceParse == UnitCall("race::parse", RaceParse(0, unit_text))

CallClassParse == UnitCall("class::parse", ClassParse(0, unit_text))

CallParseSpell == UnitCall("spell::parse_spell", parse_spell(unit_text))

CallItemParse == UnitCall("item::parse", ItemParse(0, unit_text))

CallMonsterParse == UnitCall("monster::parse", MonsterParse(0, unit_text))

UnitNext ==
    \/ CallStatParse
    \/ CallRaceParse
    \/ CallClassParse
    \/ CallParseSpell
    \/ CallItemParse
    \/ CallMonsterParse

UnitSpec == UnitInit /\ [][UnitNext]_vars

(***************************************************************************)
(* The iterator of iter_seq polled on its own.  IterSpec draws a store and *)
(* calls next() on one iterator over the prefix Item again and again,      *)
(* whatever the calls return.                                              *)
(***************************************************************************)
\* the iterator is polled at most this many times
MaxPolls == 5

\* the store holding the keys Item<n> for the n of S, each with its own value
StoreOf(S) ==
    [k \in {SeqKey(P_Item, n) : n \in S} |-> <<"v">> \o SubSeq(k, Len(P_Item) + 1, Len(k))]

IterStores == {StoreOf(S) : S \in SUBSET (0..(MaxPolls - 1))}

IterInit ==
    /\ kvs \in IterStores
    /\ pc = "iter"
    /\ i = 0
    /\ polled = <<>>
    /\ plaintext = <<>>
    /\ pos = 1
    /\ parsed = "Pending"
    /\ warnings = <<>>
    /\ editor_version = None
    /\ scenario_id = None
    /\ title = None
    /\ enum_count = 0
    /\ peeked = None
    /\ header = None
    /\ acc = <<>>
    /\ stats = None
    /\ races = None
    /\ classes = None
    /\ spell_realms = None
    /\ items = None
    /\ monsters = None
    /\ result = NoResult
    /\ unit = ""
    /\ unit_text = <<>>
    /\ decoded = None
    /\ model = [plaintext |-> None, scenario |-> None, page |-> None]
    /\ input_file = <<>>
    /\ reads = <<>>
    /\ panicked = FALSE

\* one call of next() on the iterator: the from_fn closure runs with the
\* counter i, which it increments whatever it returns
IterSeqNext ==
    /\ pc = "iter"
    /\ Len(polled) < MaxPolls
    /\ polled' = Append(polled, IterPoll(kvs, P_Item, i))
    /\ i' = i + 1
    /\ UNCHANGED <<unitVars, viewVars, plaintext, pc, pos, kvs, parsed, warnings,
                   loadLocals, enum_count, peeked, header, acc, result>>

IterNext == IterSeqNext

IterSpec == IterInit /\ [][IterNext]_vars

(***************************************************************************)
(* The interactive viewer: Model, init, update and the part of view that   *)
(* indexes the scenario.  Scenario::load_from_plaintext is taken here as   *)
(* the function it computes, one call per OpenScenario message.            *)
(***************************************************************************)
\* the user changes the file selection at most this many times
MaxSelections == 2

\* the characters of the bytes 0..127; a control character other than
\* "\t", "\n", "\f" and "\r" is written with a caret, and so is the grave
\* accent (byte 96), which a string of this notation cannot hold
Ascii == <<
    "^@", "^A", "^B", "^C", "^D", "^E", "^F", "^G", "^H", "\t", "\n", "^K",
    "\f", "\r", "^N", "^O", "^P", "^Q", "^R", "^S", "^T", "^U", "^V", "^W",
    "^X", "^Y", "^Z", "^[", "^\\", "^]", "^^", "^_", " ", "!", "\"", "#",
    "$", "%", "&", "'", "(", ")", "*", "+", ",", "-", ".", "/",
    "0", "1", "2", "3", "4", "5", "6", "7", "8", "9", ":", ";",
    "<", "=", ">", "?", "@", "A", "B", "C", "D", "E", "F", "G",
    "H", "I", "J", "K", "L", "M", "N", "O", "P", "Q", "R", "S",
    "T", "U", "V", "W", "X", "Y", "Z", "[", "\\", "]", "^", "_",
    "^'", "a", "b", "c", "d", "e", "f", "g", "h", "i", "j", "k",
    "l", "m", "n", "o", "p", "q", "r", "s", "t", "u", "v", "w",
    "x", "y", "z", "{", "|", "}", "~", "^?" >>

\* String::from_utf8 on bytes: a byte below 128 is the character of that
\* code; of the bytes from 128 on the files hold only 255, which no UTF-8
\* text contains
from_utf8(bytes) ==
    IF \A n \in 1..Len(bytes) : bytes[n] < 128
    THEN Ok([n \in 1..Len(bytes) |-> Ascii[bytes[n] + 1]])
    ELSE Fail("utf8")

\* str::as_bytes
as_bytes(s) == [n \in 1..Len(s) |-> (CHOOSE b \in 0..127 : Ascii[b + 1] = s[n])]

\* a byte buffer.  The bytes of a ciphertext cannot be computed here: a
\* buffer that DES-ECB under the key of make_key(PASSWORD) decrypts to the
\* bytes p is written Des(p); every other buffer is written with its bytes.
Raw(bytes) == [des |-> FALSE, bytes |-> bytes]

Des(bytes) == [des |-> TRUE, bytes |-> bytes]

\* Pkcs7 padding as the encrypting side applies it
Pkcs7Pad(bytes) ==
    bytes \o [n \in 1..(8 - (Len(bytes) % 8)) |-> 8 - (Len(bytes) % 8)]

\* Pkcs7::unpad of the decrypted blocks
Pkcs7Unpad(bytes) ==
    IF Len(bytes) = 0 THEN Fail("padding")
    ELSE IF bytes[Len(bytes)] = 0 \/ bytes[Len(bytes)] > 8 THEN Fail("padding")
    ELSE IF \E n \in (Len(bytes) - bytes[Len(bytes)] + 1)..Len(bytes) : bytes[n] # bytes[Len(bytes)]
         THEN Fail("padding")
    ELSE Ok(SubSeq(bytes, 1, Len(bytes) - bytes[Len(bytes)]))

\* cipher::decrypt: decrypt_vec refuses a buffer whose length is no multiple
\* of the block size and unpads the rest, String::from_utf8 reads the
\* result.  Of the buffers of whole blocks only those written Des(p) are
\* offered.
decrypt(buf) ==
    CASE Len(buf.bytes) % 8 # 0 -> Fail("length")
      [] Len(buf.bytes) % 8 = 0 /\ buf.des ->
            IF Pkcs7Unpad(buf.bytes).ok THEN from_utf8(Pkcs7Unpad(buf.bytes).val)
            ELSE Pkcs7Unpad(buf.bytes)

\* kvs::parse as a function of the text: the lines of s from position p on,
\* inserted into m
RECURSIVE KvsParseFrom(_, _, _)
KvsParseFrom(s, p, m) ==
    IF p > Len(s) THEN [tag |-> "Ok", val |-> m]
    ELSE LET r == ParseLine(LineAt(s, p))
         IN  IF r.tag = "Err" THEN Err("kvs", -1, r.check, r.text)
             ELSE KvsParseFrom(s, LineEnd(s, p) + 1,
                               IF r.tag = "Entry" THEN KvsInsert(m, r.key, r.value) ELSE m)

\* a *_from_kvs function with a plain for loop, from index n on with the
\* entities vec decoded so far; text is what the iterator yielded and r is
\* parse(id, text)
RECURSIVE FromKvsFrom(_, _, _, _, _)
FromKvsPush(m, entity, prefix, n, vec, text, r) ==
    IF r.ok THEN FromKvsFrom(m, entity, prefix, n + 1, Append(vec, r.val))
    ELSE Err(entity, n, r.cause, text)

FromKvsFrom(m, entity, prefix, n, vec) ==
    IF IterPoll(m, prefix, n).some
    THEN FromKvsPush(m, entity, prefix, n, vec, IterPoll(m, prefix, n).val,
                     Decode(prefix, n, IterPoll(m, prefix, n).val))
    ELSE [tag |-> "Ok", val |-> vec]

\* the loop of spell_realms_from_kvs, from index n on: the realm is the
\* last one when the iterator has nothing after it
RECURSIVE SpellRealmsFrom(_, _, _, _, _)
SpellRealmsPush(m, level_count, flag, n, vec, text, r) ==
    IF r.ok THEN SpellRealmsFrom(m, level_count, flag, n + 1, Append(vec, r.val))
    ELSE Err("spell realm", n, r.cause, text)

SpellRealmsFrom(m, level_count, flag, n, vec) ==
    IF IterPoll(m, P_SpellKind, n).some
    THEN SpellRealmsPush(m, level_count, flag, n, vec, IterPoll(m, P_SpellKind, n).val,
                         SpellRealmParse(level_count,
                                         flag /\ ~IterPoll(m, P_SpellKind, n + 1).some,
                                         n, IterPoll(m, P_SpellKind, n).val))
    ELSE [tag |-> "Ok", val |-> vec]

spell_realms_from_kvs(m) ==
    LET lv  == get_expect(m, K_SpellLvNum)
        lvn == ParseU32(lv.val)
        ex  == get_expect(m, K_ExclusiveUseOfMonsters)
        exb == ParseBool(ex.val)
    IN  IF ~lv.ok THEN Err("spell_realms", -1, "missing_key", K_SpellLvNum)
        ELSE IF ~lvn.ok THEN Err("spell_realms", -1, "number", lv.val)
        ELSE IF ~ex.ok THEN Err("spell_realms", -1, "missing_key", K_ExclusiveUseOfMonsters)
        ELSE IF ~exb.ok THEN Err("spell_realms", -1, "bool", ex.val)
        ELSE SpellRealmsFrom(m, [neg |-> FALSE, mag |-> lvn.mag], exb.val, 0, <<>>)

\* the six *_from_kvs calls of load_from_plaintext in source order
LoadStages ==
    <<[entity |-> "stat", prefix |-> P_Abi], [entity |-> "race", prefix |-> P_Race],
      [entity |-> "class", prefix |-> P_Class], [entity |-> "spell realm", prefix |-> P_SpellKind],
      [entity |-> "item", prefix |-> P_Item], [entity |-> "monster", prefix |-> P_Monster]>>

\* load_from_plaintext after kvs::parse: scalars holds the three
\* get_expect results and stages what each *_from_kvs call returns on m;
\* each `?` returns the error of the first one that fails
LoadAggregate(scalars, stages) ==
    IF ~scalars[1].ok THEN Err("version", -1, "missing_key", K_Version)
    ELSE IF ~scalars[2].ok THEN Err("read_keyword", -1, "missing_key", K_ReadKeyword)
    ELSE IF ~scalars[3].ok THEN Err("game_title", -1, "missing_key", K_GameTitle)
    ELSE IF \E k \in 1..6 : stages[k].tag = "Err"
         THEN stages[CHOOSE k \in 1..6 : /\ stages[k].tag = "Err"
                                         /\ \A j \in 1..(k - 1) : stages[j].tag = "Ok"]
    ELSE [tag |-> "Ok",
          scenario |-> [editor_version |-> scalars[1].val,
                        id             |-> scalars[2].val,
                        title          |-> scalars[3].val,
                        stats          |-> stages[1].val,
                        races          |-> stages[2].val,
                        classes        |-> stages[3].val,
                        spell_realms   |-> stages[4].val,
                        items          |-> stages[5].val,
                        monsters       |-> stages[6].val],
          err |-> <<>>]

LoadFromKvs(p) ==
    IF p.tag = "Err" THEN p
    ELSE LoadAggregate(
            <<get_expect(p.val, K_Version), get_expect(p.val, K_ReadKeyword),
              get_expect(p.val, K_GameTitle)>>,
            [k \in 1..6 |->
                IF k = 4 THEN spell_realms_from_kvs(p.val)
                ELSE FromKvsFrom(p.val, LoadStages[k].entity, LoadStages[k].prefix, 0, <<>>)])

\* Scenario::load_from_plaintext as a function of the text
load_from_plaintext(s) == LoadFromKvs(KvsParseFrom(s, 1, EmptyKvs))

\* lib.rs open_scenario: the bytes as UTF-8 text or else decrypted, then
\* loaded.  A buffer written Des(p) is taken not to be UTF-8 itself.
OpenLoaded(p, s) ==
    IF s.tag = "Err" THEN Fail("load") ELSE Ok([plaintext |-> p, scenario |-> s.scenario])

OpenText(p) == IF p.ok THEN OpenLoaded(p.val, load_from_plaintext(p.val)) ELSE p

open_scenario(buf) ==
    OpenText(IF ~buf.des /\ from_utf8(buf.bytes).ok THEN from_utf8(buf.bytes) ELSE decrypt(buf))

\* the texts of the files offered to the viewer
ViewerHeader ==
    Line(K_Version, <<"1">>) \o Line(K_ReadKeyword, <<"k">>) \o Line(K_GameTitle, <<"T">>)
    \o Line(K_SpellLvNum, <<"1">>) \o Line(K_ExclusiveUseOfMonsters, S_false)

NoRealmText == ViewerHeader

OneRealmText == ViewerHeader \o Line(SeqKey(P_SpellKind, 0), RealmText)

TwoRealmText == OneRealmText \o Line(SeqKey(P_SpellKind, 1), RealmText)

\* the files the user can select: what reading each one returns
FileBytes ==
    [two          |-> Raw(as_bytes(TwoRealmText)),
     one          |-> Raw(as_bytes(OneRealmText)),
     des_none     |-> Des(Pkcs7Pad(as_bytes(NoRealmText))),
     bad_line     |-> Raw(as_bytes(OneRealmText \o <<"F", "O", "O", "\n">>)),
     bad_realm    |-> Raw(as_bytes(ViewerHeader \o Line(SeqKey(P_SpellKind, 0), BadRealmText))),
     no_title     |-> Raw(as_bytes(Line(K_Version, <<"1">>) \o Line(K_ReadKeyword, <<"k">>))),
     bad_length   |-> Raw(<<255, 1, 2>>),
     bad_padding  |-> Des(as_bytes(NoRealmText) \o [n \in 1..(8 - (Len(NoRealmText) % 8)) |-> 9]),
     des_not_utf8 |-> Des(Pkcs7Pad(<<75, 255>>)),
     des_bad_line |-> Des(Pkcs7Pad(as_bytes(<<"F", "O", "O", "\n">>)))]

\* a file that gloo_file cannot read
Unreadable == "unreadable"

Files == DOMAIN FileBytes \cup {Unreadable}

\* open_scenario of each readable file
Opened == [f \in DOMAIN FileBytes |-> open_scenario(FileBytes[f])]

\* the file lists the <input> element can hold after a change
FileLists == {<<>>} \cup {<<f>> : f \in Files} \cup {<<"one", "two">>}

\* Page: Stats and SpellRealm { id }.  Races, Classes, Items and Monsters
\* render, like Stats, tables of the scenario's own collections.
Stats == [tag |-> "Stats", id |-> 0]

SpellRealm(id) == [tag |-> "SpellRealm", id |-> id]

\* the pages view_spoiler_menu links to: rendered only with a scenario
MenuPages(m) ==
    IF m.scenario.some
    THEN {Stats} \cup {SpellRealm(m.scenario.val.spell_realms[n].id) :
                          n \in 1..Len(m.scenario.val.spell_realms)}
    ELSE {}

\* view: whether rendering the model panics.  view_spoiler_page_spell_realm
\* indexes scenario.spell_realms with the id of the page.
view_panics(m) ==
    /\ m.scenario.some
    /\ m.page.some
    /\ m.page.val.tag = "SpellRealm"
    /\ m.page.val.id >= Len(m.scenario.val.spell_realms)

ViewerInit ==
    /\ model = [plaintext |-> None, scenario |-> None, page |-> None]
    /\ input_file = <<>>
    /\ reads = <<>>
    /\ panicked = FALSE
    /\ pc = "viewer"
    /\ plaintext = <<>>
    /\ pos = 1
    /\ kvs = EmptyKvs
    /\ parsed = "Pending"
    /\ warnings = <<>>
    /\ editor_version = None
    /\ scenario_id = None
    /\ title = None
    /\ i = 0
    /\ enum_count = 0
    /\ peeked = None
    /\ header = None
    /\ acc = <<>>
    /\ stats = None
    /\ races = None
    /\ classes = None
    /\ spell_realms = None
    /\ items = None
    /\ monsters = None
    /\ result = NoResult
    /\ unit = ""
    /\ unit_text = <<>>
    /\ decoded = None
    /\ polled = <<>>

loadVars == <<plaintext, pc, pos, kvs, parsed, warnings, loadLocals, iterVars, result>>

\* the reads are kept in the order they were started; completed is 0 while
\* the read is in flight and then its place in the order of completion
Completed(rs) == Cardinality({n \in 1..Len(rs) : rs[n].completed > 0})

\* Msg::InputFileChanged: the user changed the selection; with a file in
\* the list, perform_cmd starts reading files[0]
InputFileChanged ==
    /\ pc = "viewer"
    /\ ~panicked
    /\ Len(reads) < MaxSelections
    /\ \E files \in FileLists :
          /\ input_file' = files
          /\ reads' = IF Len(files) = 0 THEN reads
                      ELSE Append(reads, [file |-> files[1], completed |-> 0])
    /\ UNCHANGED <<model, panicked, loadVars, unitVars, polled>>

\* mutant: a failed open clears the scenario that was displayed
update_OpenScenario_clears(m, opened) ==
    IF ~opened.ok THEN [m EXCEPT !.plaintext = None, !.scenario = None]
    ELSE [m EXCEPT !.plaintext = Some(opened.val.plaintext),
                   !.scenario = Some(opened.val.scenario)]

\* mutant: only the scenario is stored
update_OpenScenario_scenario_only(m, opened) ==
    IF ~opened.ok THEN m
    ELSE [m EXCEPT !.scenario = Some(opened.val.scenario)]

\* update, Msg::OpenScenario(buf), opened being open_scenario(buf)
update_OpenScenario(m, opened) ==
    IF ~opened.ok THEN m
    ELSE [m EXCEPT !.plaintext = Some(opened.val.plaintext),
                   !.scenario = Some(opened.val.scenario)]

\* a read completes with Ok(buf): Msg::OpenScenario(buf) is handled by update
\* and the view is rendered; m is the model update leaves
Updated(n, m) ==
    /\ reads[n].completed = 0
    /\ reads[n].file # Unreadable
    /\ reads' = [reads EXCEPT ![n].completed = Completed(reads) + 1]
    /\ model' = m
    /\ panicked' = view_panics(m)

OpenScenario ==
    /\ pc = "viewer"
    /\ ~panicked
    /\ \E n \in 1..Len(reads) :
          Updated(n, update_OpenScenario(model, Opened[reads[n].file]))
    /\ UNCHANGED <<input_file, loadVars, unitVars, polled>>

\* a read completes with Err(e): it is logged and no message is sent
ReadError ==
    /\ pc = "viewer"
    /\ ~panicked
    /\ \E n \in 1..Len(reads) :
          /\ reads[n].completed = 0
          /\ reads[n].file = Unreadable
          /\ reads' = [reads EXCEPT ![n].completed = Completed(reads) + 1]
    /\ UNCHANGED <<model, input_file, panicked, loadVars, unitVars, polled>>

\* Msg::PageChanged(page), sent by a link of the rendered menu
PageChanged ==
    /\ pc = "viewer"
    /\ ~panicked
    /\ \E page \in MenuPages(model) :
          /\ model' = [model EXCEPT !.page = Some(page)]
          /\ panicked' = view_panics([model EXCEPT !.page = Some(page)])
    /\ UNCHANGED <<input_file, reads, loadVars, unitVars, polled>>

ViewerNext ==
    \/ InputFileChanged
    \/ OpenScenario
    \/ ReadError
    \/ PageChanged

ViewerSpec == ViewerInit /\ [][ViewerNext]_vars

(***************************************************************************)
(* Reference definitions used to state the properties                      *)
(***************************************************************************)
Done == pc = "done"

Loaded == Done /\ result.tag = "Ok"

Failed == Done /\ result.tag = "Err"

\* the lines of a plaintext, each still carrying a possible "\r"
RefLines(s) == split(s, <<"\n">>)

\* the entries of the well-formed lines of s, in line order
RefEntries(s) ==
    LET ls == RefLines(s)
        rs == [n \in 1..Len(ls) |-> ParseLine(ls[n])]
        IsEntry(r) == r.tag = "Entry"
    IN  SelectSeq(rs, IsEntry)

\* the store that maps every key to the value of its last occurrence
LastWins(es) ==
    [k \in {es[n].key : n \in 1..Len(es)} |->
        es[MaxOf({n \in 1..Len(es) : es[n].key = k})].value]

RefStore(s) == LastWins(RefEntries(s))

HasMalformedLine(s) ==
    LET ls == RefLines(s)
    IN  \E n \in 1..Len(ls) : ParseLine(ls[n]).tag = "Err"

\* the gap-stop rule: the smallest index whose key is absent
RunLen(m, prefix) ==
    MinOf({k \in 0..Cardinality(DOMAIN m) : SeqKey(prefix, k) \notin DOMAIN m})

RunText(m, prefix, j) == m[SeqKey(prefix, j)]

\* the positional ids of the entities of the run that do not decode
RunFailures(m, prefix) ==
    {j \in 0..(RunLen(m, prefix) - 1) : ~Decode(prefix, j, RunText(m, prefix, j)).ok}

HeaderOk(m) ==
    /\ K_SpellLvNum \in DOMAIN m
    /\ ParseU32(m[K_SpellLvNum]).ok
    /\ K_ExclusiveUseOfMonsters \in DOMAIN m
    /\ ParseBool(m[K_ExclusiveUseOfMonsters]).ok

RefLevelCount(m) == [neg |-> FALSE, mag |-> ParseU32(m[K_SpellLvNum]).mag]

RefRealm(m, j) ==
    SpellRealmParse(RefLevelCount(m),
                    ParseBool(m[K_ExclusiveUseOfMonsters]).val /\ j = RunLen(m, P_SpellKind) - 1,
                    j, RunText(m, P_SpellKind, j))

RealmFailures(m) == {j \in 0..(RunLen(m, P_SpellKind) - 1) : ~RefRealm(m, j).ok}

\* the stages of load_from_plaintext in their fixed order
StageOrder == <<"kvs", "version", "read_keyword", "game_title",
                "stat", "race", "class", "spell_realms", "item", "monster">>

Rank(stage) ==
    IF stage = "spell realm" THEN 8
    ELSE CHOOSE n \in 1..Len(StageOrder) : StageOrder[n] = stage

\* the ranks of the stages in which the plaintext s has a fault
FaultRanks(s) ==
    LET m == RefStore(s)
    IN  (IF HasMalformedLine(s) THEN {1} ELSE {})
        \cup (IF K_Version \notin DOMAIN m THEN {2} ELSE {})
        \cup (IF K_ReadKeyword \notin DOMAIN m THEN {3} ELSE {})
        \cup (IF K_GameTitle \notin DOMAIN m THEN {4} ELSE {})
        \cup (IF RunFailures(m, P_Abi) # {} THEN {5} ELSE {})
        \cup (IF RunFailures(m, P_Race) # {} THEN {6} ELSE {})
        \cup (IF RunFailures(m, P_Class) # {} THEN {7} ELSE {})
        \cup (IF ~HeaderOk(m) \/ RealmFailures(m) # {} THEN {8} ELSE {})
        \cup (IF RunFailures(m, P_Item) # {} THEN {9} ELSE {})
        \cup (IF RunFailures(m, P_Monster) # {} THEN {10} ELSE {})

\* the entities of the run of prefix, decoded one by one
RefDecoded(m, prefix) ==
    [n \in 1..RunLen(m, prefix) |-> Decode(prefix, n - 1, RunText(m, prefix, n - 1)).val]

LoopPrefix ==
    [stats_loop |-> P_Abi, races_loop |-> P_Race, classes_loop |-> P_Class,
     spell_realms_loop |-> P_SpellKind, items_loop |-> P_Item, monsters_loop |-> P_Monster]

(***************************************************************************)
(* C1  Gap-stop rule.  For every store and key prefix P, the decoded       *)
(* sequence is exactly the values of P0 .. P(k-1) in index order, k being  *)
(* the smallest absent index: a loaded Scenario holds, for each of the six *)
(* prefixes, the decodings of that run and nothing else, and while a loop  *)
(* runs its iterator never looks beyond index k.                           *)
(***************************************************************************)
C1_GapStop ==
    /\ pc \in DOMAIN LoopPrefix =>
          i <= RunLen(kvs, LoopPrefix[pc]) + (IF pc = "spell_realms_loop" THEN 1 ELSE 0)
    /\ Loaded =>
          /\ result.scenario.stats = RefDecoded(kvs, P_Abi)
          /\ result.scenario.races = RefDecoded(kvs, P_Race)
          /\ result.scenario.classes = RefDecoded(kvs, P_Class)
          /\ result.scenario.spell_realms =
                [n \in 1..RunLen(kvs, P_SpellKind) |-> RefRealm(kvs, n - 1).val]
          /\ result.scenario.items = RefDecoded(kvs, P_Item)
          /\ result.scenario.monsters = RefDecoded(kvs, P_Monster)

\* a store with Item0, Item1, Item3 and no Item2 was loaded and gave two items
C1_Witness ==
    /\ Loaded
    /\ {SeqKey(P_Item, 0), SeqKey(P_Item, 1), SeqKey(P_Item, 3)} \subseteq DOMAIN kvs
    /\ SeqKey(P_Item, 2) \notin DOMAIN kvs
    /\ Len(result.scenario.items) = 2

(***************************************************************************)
(* C2  In every Scenario returned by load, each entity's id equals its     *)
(* 0-based position in its collection.                                     *)
(***************************************************************************)
IdsArePositions(coll) == \A n \in 1..Len(coll) : coll[n].id = n - 1

C2_IdsArePositions ==
    Loaded =>
        /\ IdsArePositions(result.scenario.stats)
        /\ IdsArePositions(result.scenario.races)
        /\ IdsArePositions(result.scenario.classes)
        /\ IdsArePositions(result.scenario.spell_realms)
        /\ IdsArePositions(result.scenario.items)
        /\ IdsArePositions(result.scenario.monsters)

\* a Scenario with several items and realms (and an item whose name looks like
\* another id) was returned
C2_Witness ==
    /\ Loaded
    /\ Len(result.scenario.items) >= 3
    /\ Len(result.scenario.spell_realms) >= 2
    /\ Len(result.scenario.stats) >= 1
    /\ Len(result.scenario.monsters) >= 1
    /\ result.scenario.items[1].name_ident = <<"i", "t", "e", "m", "[", "7", "]">>

(***************************************************************************)
(* C3  load never returns a partially populated aggregate: when the        *)
(* plaintext has a fault in any stage (a malformed line, an absent         *)
(* mandatory key, an entity of a gap-stopped run that does not decode)     *)
(* load returns an error and no Scenario; a Scenario is returned only when *)
(* nothing is at fault, and then every collection is complete.             *)
(***************************************************************************)
C3_NoPartialAggregate ==
    Done =>
        /\ result.tag \in {"Ok", "Err"}
        /\ result.tag = "Err" => result.scenario = <<>>
        /\ result.tag = "Ok" <=> FaultRanks(plaintext) = {}
        /\ result.tag = "Ok" =>
              /\ Len(result.scenario.stats) = RunLen(kvs, P_Abi)
              /\ Len(result.scenario.races) = RunLen(kvs, P_Race)
              /\ Len(result.scenario.classes) = RunLen(kvs, P_Class)
              /\ Len(result.scenario.spell_realms) = RunLen(kvs, P_SpellKind)
              /\ Len(result.scenario.items) = RunLen(kvs, P_Item)
              /\ Len(result.scenario.monsters) = RunLen(kvs, P_Monster)

\* load failed in the Item stage after the earlier collections were decoded
\* and after the first item had decoded
C3_Witness ==
    /\ Failed
    /\ result.err.stage = "item"
    /\ result.err.id >= 1
    /\ stats.some /\ Len(stats.val) >= 1
    /\ spell_realms.some

(***************************************************************************)
(* C4  When the input has faults in more than one stage, load reports the  *)
(* fault of the earliest stage in the order KVS parse, Version,            *)
(* ReadKeyword, GameTitle, Stats, Races, Classes, SpellRealms, Items,      *)
(* Monsters.                                                               *)
(***************************************************************************)
C4_EarliestFaultReported ==
    Failed => LET faults == FaultRanks(plaintext)
              IN  faults # {} /\ Rank(result.err.stage) = MinOf(faults)

\* two stages at fault, the earlier one an entity stage
C4_Witness ==
    /\ Failed
    /\ Cardinality(FaultRanks(plaintext)) >= 2
    /\ Rank(result.err.stage) >= 5

(***************************************************************************)
(* C5  Within one entity sequence decoding aborts at the first entity that *)
(* fails: the error names that entity type and the smallest failing        *)
(* positional id, the iterator has handed out no entity beyond the failing *)
(* one (the realm loop has at most peeked at the next), and no list of the *)
(* entities decoded before the failure is kept or returned.                *)
(***************************************************************************)
EntityStages == {"stat", "race", "class", "spell realm", "item", "monster"}

StageFailures(stage) ==
    CASE stage = "stat"        -> RunFailures(kvs, P_Abi)
      [] stage = "race"        -> RunFailures(kvs, P_Race)
      [] stage = "class"       -> RunFailures(kvs, P_Class)
      [] stage = "spell realm" -> RealmFailures(kvs)
      [] stage = "item"        -> RunFailures(kvs, P_Item)
      [] stage = "monster"     -> RunFailures(kvs, P_Monster)

StageLocal(stage) ==
    CASE stage = "stat"        -> stats
      [] stage = "race"        -> races
      [] stage = "class"       -> classes
      [] stage = "spell realm" -> spell_realms
      [] stage = "item"        -> items
      [] stage = "monster"     -> monsters

C5_AbortAtFirstFailingEntity ==
    (Failed /\ result.err.stage \in EntityStages) =>
        LET failures == StageFailures(result.err.stage)
        IN  /\ failures # {}
            /\ result.err.id = MinOf(failures)
            /\ enum_count \in {result.err.id + 1, result.err.id + 2}
            /\ result.err.stage # "spell realm" => enum_count = result.err.id + 1
            /\ acc = <<>>
            /\ StageLocal(result.err.stage) = None
            /\ result.scenario = <<>>

\* the second item failed, after the first had decoded, and a later item of
\* the run is malformed as well
C5_Witness ==
    /\ Failed
    /\ result.err.stage = "item"
    /\ result.err.id = 1
    /\ Cardinality(RunFailures(kvs, P_Item)) >= 2

(***************************************************************************)
(* C6  load fails with a missing-key error whenever Version, ReadKeyword   *)
(* or GameTitle is absent from the store, before any entity is decoded;    *)
(* when all three are present their values are copied verbatim into the    *)
(* Scenario.                                                               *)
(***************************************************************************)
ScalarKeys == <<K_Version, K_ReadKeyword, K_GameTitle>>

MissingScalars == {n \in 1..Len(ScalarKeys) : ScalarKeys[n] \notin DOMAIN kvs}

C6_MandatoryScalarKeys ==
    /\ (Done /\ parsed = "Ok" /\ MissingScalars # {}) =>
          /\ result.tag = "Err"
          /\ result.err.cause = "missing_key"
          /\ result.err.detail = ScalarKeys[MinOf(MissingScalars)]
          /\ enum_count = 0
          /\ acc = <<>>
          /\ ~stats.some
    /\ pc \notin {"parse", "version", "read_keyword", "game_title", "done"} =>
          MissingScalars = {}
    /\ Loaded =>
          /\ result.scenario.editor_version = kvs[K_Version]
          /\ result.scenario.id = kvs[K_ReadKeyword]
          /\ result.scenario.title = kvs[K_GameTitle]

\* GameTitle is absent from a store that holds entities: load failed without
\* decoding any of them
C6_Witness ==
    /\ Failed
    /\ result.err.cause = "missing_key"
    /\ result.err.detail = K_GameTitle
    /\ SeqKey(P_Abi, 0) \in DOMAIN kvs
    /\ SeqKey(P_Item, 0) \in DOMAIN kvs

(***************************************************************************)
(* C7  A plaintext that holds the three mandatory scalar keys, one         *)
(* well-formed Abi0, Race0 and Class0 and no other key.                    *)
(***************************************************************************)
BareKeys == {K_Version, K_ReadKeyword, K_GameTitle,
             SeqKey(P_Abi, 0), SeqKey(P_Race, 0), SeqKey(P_Class, 0)}

HeaderKeys == {K_SpellLvNum, K_ExclusiveUseOfMonsters}

FirstEntitiesWellFormed ==
    /\ StatParse(0, kvs[SeqKey(P_Abi, 0)]).ok
    /\ RaceParse(0, kvs[SeqKey(P_Race, 0)]).ok
    /\ ClassParse(0, kvs[SeqKey(P_Class, 0)]).ok

LoadedMinimal ==
    /\ result.tag = "Ok"
    /\ Len(result.scenario.stats) = 1
    /\ Len(result.scenario.races) = 1
    /\ Len(result.scenario.classes) = 1
    /\ Len(result.scenario.items) = 0
    /\ Len(result.scenario.monsters) = 0

\* C7 as stated: such a plaintext loads to a Scenario with 1 stat, 1 race,
\* 1 class, 0 items and 0 monsters
C7_Original ==
    (Done /\ parsed = "Ok" /\ DOMAIN kvs = BareKeys /\ FirstEntitiesWellFormed)
        => LoadedMinimal

\* C7 as amended: with well-formed SpellLvNum and ExclusiveUseOfMonsters added
\* (and no other key) the plaintext loads to a Scenario with 1 stat, 1 race,
\* 1 class, 0 spell realms, 0 items and 0 monsters; without SpellLvNum load
\* fails with a missing-key error for it
C7_MinimalLoads ==
    /\ (Done /\ parsed = "Ok" /\ DOMAIN kvs = BareKeys \cup HeaderKeys
             /\ FirstEntitiesWellFormed /\ HeaderOk(kvs))
          => LoadedMinimal /\ Len(result.scenario.spell_realms) = 0
    /\ (Done /\ parsed = "Ok" /\ DOMAIN kvs = BareKeys /\ FirstEntitiesWellFormed)
          => /\ result.tag = "Err"
             /\ result.err.cause = "missing_key"
             /\ result.err.detail = K_SpellLvNum

\* the minimal plaintext with the two spell header keys was loaded
C7_Witness ==
    /\ Loaded
    /\ DOMAIN kvs = BareKeys \cup HeaderKeys
    /\ LoadedMinimal

(***************************************************************************)
(* C8  Duplicate keys are never an error: after parsing well-formed lines  *)
(* the store maps each key to the value of its last occurrence in line     *)
(* order, parse succeeds, and each overwritten earlier value produces one  *)
(* duplicate warning carrying the key and the value it lost.               *)
(***************************************************************************)
\* the entries that overwrite an earlier entry of the same key
Overwriting(es) == {n \in 1..Len(es) : \E m \in 1..(n - 1) : es[m].key = es[n].key}

\* the warning of the overwriting entry n: its key and the value it replaces
RefWarning(es, n) ==
    <<es[n].key, es[MaxOf({m \in 1..(n - 1) : es[m].key = es[n].key})].value>>

RefWarnings(es) ==
    LET dup == Overwriting(es)
    IN  [j \in 1..Cardinality(dup) |->
            RefWarning(es, CHOOSE n \in dup : Cardinality({m \in dup : m <= n}) = j)]

C8_DuplicateKeysLastWins ==
    /\ pc = "version" =>
          LET es == RefEntries(plaintext)
          IN  /\ parsed = "Ok"
              /\ kvs = LastWins(es)
              /\ warnings = RefWarnings(es)
    /\ (Done /\ parsed = "Err") => HasMalformedLine(plaintext)

\* one key given three times: one entry in the store, two warnings
C8_Witness ==
    /\ pc = "version"
    /\ Cardinality(DOMAIN kvs) = 1
    /\ Len(warnings) = 2
    /\ warnings[1] # warnings[2]

(***************************************************************************)
(* The grammar of one line, stated on character positions                  *)
(***************************************************************************)
\* the first position from `from` on that holds no ASCII whitespace
\* (Len(t) + 1 when there is none)
FirstNonWs(t, from) ==
    CHOOSE k \in from..(Len(t) + 1) :
        /\ k = Len(t) + 1 \/ ~is_ascii_whitespace(t[k])
        /\ \A j \in from..(k - 1) : is_ascii_whitespace(t[j])

\* the last position that holds no ASCII whitespace (0 when there is none)
LastNonWs(t) ==
    CHOOSE k \in 0..Len(t) :
        /\ k = 0 \/ ~is_ascii_whitespace(t[k])
        /\ \A j \in (k + 1)..Len(t) : is_ascii_whitespace(t[j])

\* the length of the leading identifier
IdentLen(t) ==
    CHOOSE k \in 0..Len(t) :
        /\ \A j \in 1..k : IsKeyChar(t[j])
        /\ k = Len(t) \/ ~IsKeyChar(t[k + 1])

GrammarErrors == {"no_key", "missing_equals", "missing_open_quote", "missing_close_quote"}

\* what the grammar says of the line raw: blank, one of the four errors in
\* their order, or an entry
RefLine(raw) ==
    LET t  == SubSeq(raw, FirstNonWs(raw, 1), LastNonWs(raw))
        m  == Len(t)
        kl == IdentLen(t)
        e  == FirstNonWs(t, kl + 1)
        q  == FirstNonWs(t, e + 1)
    IN  IF m = 0 THEN [tag |-> "blank"]
        ELSE IF kl = 0 THEN [tag |-> "no_key"]
        ELSE IF e > m \/ t[e] # "=" THEN [tag |-> "missing_equals"]
        ELSE IF q > m \/ t[q] # "\"" THEN [tag |-> "missing_open_quote"]
        ELSE IF q = m \/ t[m] # "\"" THEN [tag |-> "missing_close_quote"]
        ELSE [tag |-> "entry", key |-> SubSeq(t, 1, kl), value |-> SubSeq(t, q + 1, m - 1)]

(***************************************************************************)
(* C9  A non-empty trimmed line whose leading identifier is not followed   *)
(* (after optional ASCII whitespace) by "=" makes the parse fail with the  *)
(* missing-equals error; the per-line checks apply in the order no-key,    *)
(* missing-equals, missing-open-quote, missing-close-quote, so the parse   *)
(* fails exactly when some line is malformed, with the error of the first  *)
(* such line; on failure no store is returned, not even the entries of the *)
(* lines already parsed.                                                   *)
(***************************************************************************)
C9_MissingEqualsAndCheckOrder ==
    /\ (Done /\ parsed = "Err") =>
          LET ls  == RefLines(plaintext)
              bad == {n \in 1..Len(ls) : RefLine(ls[n]).tag \in GrammarErrors}
          IN  /\ bad # {}
              /\ result.tag = "Err"
              /\ result.err.stage = "kvs"
              /\ result.err.cause = RefLine(ls[MinOf(bad)]).tag
              /\ kvs = EmptyKvs
              /\ result.scenario = <<>>
    /\ pc = "version" =>
          LET ls == RefLines(plaintext)
          IN  \A n \in 1..Len(ls) : RefLine(ls[n]).tag \notin GrammarErrors

\* a line without "=" failed the parse after an earlier line had been stored
C9_Witness ==
    /\ Failed
    /\ result.err.cause = "missing_equals"
    /\ kvs = EmptyKvs
    /\ RefLine(RefLines(plaintext)[1]).tag = "entry"
    /\ RefLine(RefLines(plaintext)[2]).tag = "missing_equals"

(***************************************************************************)
(* C10  For a well-formed line the stored value is exactly the text        *)
(* between the opening quote and the last character of the                 *)
(* whitespace-trimmed line: embedded quotes and inner whitespace are kept, *)
(* whitespace outside the quotes is dropped; a line with the opening quote *)
(* but no separate closing quote fails with the missing-close-quote error. *)
(***************************************************************************)
C10_Step ==
    (pc = "parse" /\ pos <= Len(plaintext)) =>
        LET rl == RefLine(LineAt(plaintext, pos))
        IN  /\ rl.tag = "entry" =>
                  /\ parsed' # "Err"
                  /\ DOMAIN kvs' = DOMAIN kvs \cup {rl.key}
                  /\ kvs'[rl.key] = rl.value
                  /\ \A k \in DOMAIN kvs \ {rl.key} : kvs'[k] = kvs[k]
            /\ rl.tag = "missing_close_quote" =>
                  /\ parsed' = "Err"
                  /\ result'.tag = "Err"
                  /\ result'.err.cause = "missing_close_quote"

C10_ValueBetweenQuotes == [][C10_Step]_vars

\* a value with inner whitespace, then one with an embedded quote, from a line
\* with whitespace around the key, the "=" and the quotes
C10_Witness ==
    /\ pc = "version"
    /\ DOMAIN kvs = {<<"K">>}
    /\ kvs[<<"K">>] = <<"a", "\"", "b">>
    /\ warnings = << <<<<"K">>, <<"a", " ", "b">>>> >>

(***************************************************************************)
(* C11  A Stat, Race, Class, Item or Spell text decodes only if splitting  *)
(* it on "<>" gives exactly 8, 14, 21, 39 or 8 fields; any other count,    *)
(* smaller or larger, fails with the arity error, and the well-formed text *)
(* of the expected count decodes (a Race text with 13 fields fails, with a *)
(* valid 14th field it succeeds, with 15 fields it fails).                 *)
(***************************************************************************)
Returned == decoded.some

\* the number of "<>" separators in t, counted on character positions
SepCount(t) == Cardinality({p \in 1..(Len(t) - 1) : t[p] = "<" /\ t[p + 1] = ">"})

FieldCount(t) == SepCount(t) + 1

ExactArity == [u \in Units \ {"monster::parse"} |->
                  CASE u = "stat::parse"  -> 8
                    [] u = "race::parse"  -> 14
                    [] u = "class::parse" -> 21
                    [] u = "item::parse"  -> 39
                    [] u = "spell::parse_spell" -> 8]

C11_ExactFieldCount ==
    (Returned /\ unit \in DOMAIN ExactArity) =>
        /\ FieldCount(unit_text) # ExactArity[unit] =>
              ~decoded.val.ok /\ decoded.val.cause = "arity"
        /\ FieldCount(unit_text) = ExactArity[unit] => decoded.val.cause # "arity"
        /\ unit_text = Join(UnitFields[unit], Sep) => decoded.val.ok

\* a Race text of 15 fields was refused for its field count
C11_Witness ==
    /\ Returned
    /\ unit = "race::parse"
    /\ FieldCount(unit_text) = 15
    /\ decoded.val.cause = "arity"

(***************************************************************************)
(* C12  Every decoded flag-set holds only bits its mask type defines, and  *)
(* decoding fails rather than dropping a bit otherwise: a generic          *)
(* resistance field (Race, Item) with hex digit 9 or f fails, a            *)
(* monster-kind mask field (Item slay/protect, Class dispel) with f fails, *)
(* a Monster attack-debuff field with any digit 5-9 fails, and a sex digit *)
(* >= 2 or alignment digit >= 3 fails.  A field whose digits are all       *)
(* defined decodes to exactly the set of its digits.  (The Monster         *)
(* resistance and vulnerability fields go through the translation table;   *)
(* they are the subject of C13.)                                           *)
(***************************************************************************)
\* the offsets of the "<>" separators of t
SepPositions(t) == {p \in 1..(Len(t) - 1) : t[p] = "<" /\ t[p + 1] = ">"}

\* the field of 0-based index k of t, read off the separator positions
RefField(t, k) ==
    LET seps    == SepPositions(t)
        nth(n)  == CHOOSE p \in seps : Cardinality({q \in seps : q <= p}) = n
        first   == IF k = 0 THEN 1 ELSE nth(k) + 2
        last    == IF k = Cardinality(seps) THEN Len(t) ELSE nth(k + 1) - 1
    IN  SubSeq(t, first, last)

\* the bits the claim allows in each mask type
RefGenericResistBits == (0..15) \ {9, 15}

RefMonsterKindBits == (0..15) \ {15}

RefDebuffBits == (0..9) \ (5..9)

RefSexBits == {0, 1}

RefAlignmentBits == {0, 1, 2}

MaskCase(u, idx, name, radix, bits) ==
    [unit |-> u, idx |-> idx, name |-> name, radix |-> radix, bits |-> bits]

MaskCases ==
    {MaskCase("race::parse", 9, "resist_mask", 16, RefGenericResistBits),
     MaskCase("item::parse", 22, "resist_mask", 16, RefGenericResistBits),
     MaskCase("item::parse", 16, "slay_mask", 16, RefMonsterKindBits),
     MaskCase("item::parse", 17, "protect_mask", 16, RefMonsterKindBits),
     MaskCase("class::parse", 13, "dispell_mask", 16, RefMonsterKindBits),
     MaskCase("monster::parse", 19, "attack_debuff_mask", 10, RefDebuffBits),
     MaskCase("class::parse", 2, "sex_mask", 10, RefSexBits),
     MaskCase("class::parse", 3, "alignment_mask", 10, RefAlignmentBits)}

\* the value of a digit character in the radix, -1 when it is no digit
RefDigit(c, radix) == IF radix = 16 THEN to_digit16(c) ELSE to_digit10(c)

RefDigits(f, radix) == {RefDigit(f[n], radix) : n \in 1..Len(f)}

C12_MaskCaseHolds(c) ==
    LET f    == RefField(unit_text, c.idx)
        digs == RefDigits(f, c.radix)
    IN  /\ ~(digs \subseteq c.bits) => ~decoded.val.ok
        /\ decoded.val.ok => decoded.val.val[c.name] = digs
        /\ (digs \subseteq c.bits /\ unit_text = Probe(UnitFields[unit], c.idx, f))
              => decoded.val.ok

\* the sub-field of f before (part 1) or after (part 2) its only comma
RefHalf(f, part) ==
    LET comma == CHOOSE p \in 1..Len(f) : f[p] = ","
    IN  IF part = 1 THEN SubSeq(f, 1, comma - 1) ELSE SubSeq(f, comma + 1, Len(f))

\* a curse sub-field: the "-" sentinel is the zero mask, else digit per bit
C12_CurseHalfHolds(half, name, bits) ==
    LET digs == IF half = <<"-">> THEN {} ELSE RefDigits(half, 10)
    IN  /\ ~(digs \subseteq bits) => ~decoded.val.ok
        /\ decoded.val.ok => decoded.val.val[name] = digs

C12_CurseHolds ==
    LET f == RefField(unit_text, 6)
    IN  Cardinality({p \in 1..Len(f) : f[p] = ","}) = 1 =>
            /\ C12_CurseHalfHolds(RefHalf(f, 1), "curse_alignment_mask", RefAlignmentBits)
            /\ C12_CurseHalfHolds(RefHalf(f, 2), "curse_sex_mask", RefSexBits)
            /\ (/\ unit_text = Probe(ItemFields, 6, f)
                /\ RefHalf(f, 1) = <<"-">> \/ RefDigits(RefHalf(f, 1), 10) \subseteq RefAlignmentBits
                /\ RefHalf(f, 2) = <<"-">> \/ RefDigits(RefHalf(f, 2), 10) \subseteq RefSexBits)
                  => decoded.val.ok

C12_OnlyDefinedBits ==
    Returned =>
        /\ (unit = "item::parse" /\ FieldCount(unit_text) = 39) => C12_CurseHolds
        /\ \A c \in MaskCases :
              (unit = c.unit /\ FieldCount(unit_text) = Len(UnitFields[unit]))
                  => C12_MaskCaseHolds(c)
        /\ (unit = "monster::parse" /\ decoded.val.ok) =>
              /\ decoded.val.val.resist_mask \subseteq RefGenericResistBits
              /\ decoded.val.val.vuln_mask \subseteq RefGenericResistBits

\* an Item whose resistance field is the undefined bit f was refused
C12_Witness ==
    /\ Returned
    /\ unit = "item::parse"
    /\ RefField(unit_text, 22) = <<"f">>
    /\ decoded.val.cause = "unknown_flag_bit"

(***************************************************************************)
(* C13  Decoding a Monster whose resistance or vulnerability field holds a *)
(* hex digit with no entry in the 13-entry translation table (d, e, f:     *)
(* positions 13-15) fails as an unrecognized flag bit; the bit is not      *)
(* silently dropped.                                                       *)
(***************************************************************************)
\* the positions the translation table has an entry for
RefTranslated == 0..12

C13_UntranslatedBitFails ==
    (Returned /\ unit = "monster::parse" /\ FieldCount(unit_text) >= 49) =>
        \A k \in {22, 23} :
            (\E d \in RefDigits(RefField(unit_text, k), 16) : d >= 0 /\ d \notin RefTranslated)
                => ~decoded.val.ok

\* what the code does instead: the Monster decodes and the untranslated
\* positions leave no trace in the mask
C13_UntranslatedBitDropped ==
    (Returned /\ unit = "monster::parse"
        /\ unit_text = Probe(MonsterFields, 22, RefField(unit_text, 22))
        /\ \A d \in RefDigits(RefField(unit_text, 22), 16) : d >= 0)
      => /\ decoded.val.ok
         /\ decoded.val.val.resist_mask =
               {TRANSLATION[n][2] : n \in {m \in 1..Len(TRANSLATION) :
                    TRANSLATION[m][1] \in RefDigits(RefField(unit_text, 22), 16)}}

\* a Monster with resistance field "d" decoded, with the empty resistance mask
C13_Witness ==
    /\ Returned
    /\ unit = "monster::parse"
    /\ RefField(unit_text, 22) = <<"d">>
    /\ decoded.val.ok
    /\ decoded.val.val.resist_mask = {}

(***************************************************************************)
(* C14  A resistance field that is the single hex digit a (10) decodes,    *)
(* under the generic decode used by Race and Item, to one resistance       *)
(* alone, and under the Monster translation table to a different single    *)
(* named resistance.  As stated the generic one is Poison; as amended the  *)
(* generic one is Fire and the Monster one is Poison.                      *)
(***************************************************************************)
\* the decoded resistance mask of a text whose resistance field is "a"
C14_GenericCase ==
    /\ Returned
    /\ \/ unit = "race::parse" /\ unit_text = Probe(RaceFields, 9, <<"a">>)
       \/ unit = "item::parse" /\ unit_text = Probe(ItemFields, 22, <<"a">>)

C14_MonsterCase ==
    /\ Returned
    /\ unit = "monster::parse"
    /\ unit_text = Probe(MonsterFields, 22, <<"a">>)

\* C14 as stated: Poison under the generic decode
C14_Original ==
    /\ C14_GenericCase =>
          decoded.val.ok /\ decoded.val.val.resist_mask = {RESIST_POISON}
    /\ C14_MonsterCase =>
          /\ decoded.val.ok
          /\ Cardinality(decoded.val.val.resist_mask) = 1
          /\ decoded.val.val.resist_mask # {RESIST_POISON}

\* C14 as amended: Fire under the generic decode, Poison under the Monster
\* translation table
C14_DigitADecodes ==
    /\ C14_GenericCase =>
          decoded.val.ok /\ decoded.val.val.resist_mask = {RESIST_FIRE}
    /\ C14_MonsterCase =>
          decoded.val.ok /\ decoded.val.val.resist_mask = {RESIST_POISON}

\* an Item with resistance field "a" decoded to the Fire resistance
C14_Witness ==
    /\ C14_GenericCase
    /\ unit = "item::parse"
    /\ decoded.val.val.resist_mask = {RESIST_FIRE}

(***************************************************************************)
(* C15  The attack-debuff field of an Item is one numeric code: 0 decodes  *)
(* to no debuff, 1 to Knockout alone, 2 to Critical alone, 3 to Sleep, 4   *)
(* to Paralysis, 5 to Petrification; an Item whose field holds any other   *)
(* value, or text that is no number, does not decode.                      *)
(***************************************************************************)
\* the debuffs the claim gives each code
RefDebuffOfCode ==
    [c \in 0..5 |->
        CASE c = 0 -> {}
          [] c = 1 -> {DEBUFF_KNOCKOUT}
          [] c = 2 -> {DEBUFF_CRITICAL}
          [] c = 3 -> {DEBUFF_SLEEP}
          [] c = 4 -> {DEBUFF_PARALYSIS}
          [] c = 5 -> {DEBUFF_PETRIFICATION}]

\* the value of f read as an unsigned decimal numeral (an optional "+" and
\* digits), -1 when f is none; values past three digits are reported as 1000
RefCode(f) ==
    LET body == IF Len(f) > 0 /\ f[1] = "+" THEN Tail(f) ELSE f
    IN  IF Len(body) = 0 \/ \E n \in 1..Len(body) : body[n] \notin Digits THEN -1
        ELSE IF Len(Canon(body)) > 3 THEN 1000
        ELSE DecVal(Canon(body))

C15_Case == unit = "item::parse" /\ Returned /\ FieldCount(unit_text) = 39

C15_ItemDebuffCode ==
    C15_Case =>
        LET f == RefField(unit_text, 14)
        IN  /\ decoded.val.ok =>
                  /\ RefCode(f) \in 0..5
                  /\ decoded.val.val.attack_debuff_mask = RefDebuffOfCode[RefCode(f)]
                  /\ Cardinality(decoded.val.val.attack_debuff_mask) <= 1
            /\ (RefCode(f) \in 0..5 /\ unit_text = Probe(ItemFields, 14, f)) =>
                  decoded.val.ok

\* an Item with code 2 decoded to the Critical-hit debuff alone
C15_Witness ==
    /\ C15_Case
    /\ RefField(unit_text, 14) = <<"2">>
    /\ decoded.val.ok
    /\ decoded.val.val.attack_debuff_mask = {DEBUFF_CRITICAL}

(***************************************************************************)
(* C16  An equip-mask sub-field that is a "<+>"-joined list of tokens      *)
(* class[N] (race[N] in the race sub-field) decodes to the mask whose set  *)
(* bits are exactly the named N: every N in 0..35, 32..35 included, sets   *)
(* its own bit of the 64-bit mask; a token with N >= 36, a token of the    *)
(* other word and a token of any other shape make the Item fail.           *)
(***************************************************************************)
\* the number an id names; ids past two digits are reported as 100
RefId(id) == IF Len(Canon(id)) > 2 THEN 100 ELSE DecVal(Canon(id))

RefWord(half) == IF half = 1 THEN W_class ELSE W_race

\* the probe decodes: every token has the word of its sub-field and N < 36
RefEquipOk(p) ==
    \A n \in 1..Len(p.tokens) :
        p.tokens[n].word = RefWord(p.half) /\ RefId(p.tokens[n].id) \in 0..35

RefEquipBits(p) == {RefId(p.tokens[n].id) : n \in 1..Len(p.tokens)}

C16_Case == unit = "item::parse" /\ Returned /\ FieldCount(unit_text) = 39

C16_ProbeHolds(p) ==
    IF RefEquipOk(p)
    THEN /\ decoded.val.ok
         /\ decoded.val.val.equip_class_mask = (IF p.half = 1 THEN RefEquipBits(p) ELSE {})
         /\ decoded.val.val.equip_race_mask = (IF p.half = 2 THEN RefEquipBits(p) ELSE {})
    ELSE ~decoded.val.ok

C16_EquipMaskBits ==
    C16_Case =>
        LET f == RefField(unit_text, 5)
        IN  /\ \A p \in EquipProbes :
                  (f = EquipValue(p) /\ unit_text = Probe(ItemFields, 5, f)) => C16_ProbeHolds(p)
            /\ (\E v \in EquipMalformed : f = v \o <<",", "-">>) => ~decoded.val.ok
            /\ decoded.val.ok =>
                  /\ decoded.val.val.equip_class_mask \subseteq 0..35
                  /\ decoded.val.val.equip_race_mask \subseteq 0..35

\* class[35]<+>class[32] decoded to bits 32 and 35 of the class mask
C16_Witness ==
    /\ C16_Case
    /\ RefField(unit_text, 5) =
          W_class \o <<"[", "3", "5", "]", "<", "+", ">">> \o W_class \o <<"[", "3", "2", "]", ",", "-">>
    /\ decoded.val.ok
    /\ decoded.val.val.equip_class_mask = {32, 35}
    /\ decoded.val.val.equip_race_mask = {}

(***************************************************************************)
(* C17  Of the decoded realms, which are those of the gap-stopped          *)
(* SpellKind run, the last one is flagged monster-only exactly when the    *)
(* key ExclusiveUseOfMonsters is true, and every other realm is flagged    *)
(* false: at most one realm is flagged.  With SpellKind0, SpellKind1 and   *)
(* SpellKind3 present, realm 1 is the last one and SpellKind3 is not       *)
(* decoded.                                                                *)
(***************************************************************************)
\* the realms the spell stage returned
C17_Realms == spell_realms.val

C17_LastRealmFlag ==
    spell_realms.some =>
        /\ Len(C17_Realms) = RunLen(kvs, P_SpellKind)
        /\ \A n \in 1..Len(C17_Realms) :
              C17_Realms[n].is_only_for_monster
                  = (n = Len(C17_Realms) /\ kvs[K_ExclusiveUseOfMonsters] = S_true)
        /\ Cardinality({n \in 1..Len(C17_Realms) : C17_Realms[n].is_only_for_monster}) <= 1

\* SpellKind0, SpellKind1 and SpellKind3 with the toggle true: two realms,
\* the second one flagged
C17_Witness ==
    /\ Loaded
    /\ {SeqKey(P_SpellKind, 0), SeqKey(P_SpellKind, 1), SeqKey(P_SpellKind, 3)} \subseteq DOMAIN kvs
    /\ SeqKey(P_SpellKind, 2) \notin DOMAIN kvs
    /\ kvs[K_ExclusiveUseOfMonsters] = S_true
    /\ Len(result.scenario.spell_realms) = 2
    /\ ~result.scenario.spell_realms[1].is_only_for_monster
    /\ result.scenario.spell_realms[2].is_only_for_monster
    /\ result.scenario.spell_realms[2].id = 1

(***************************************************************************)
(* C18  Sentinels of an Item.  An equip-mask or curse-mask field that is   *)
(* the empty string decodes to both masks zero (the sub-field decoders,    *)
(* which refuse an empty class or race sub-field, are not run); a          *)
(* sub-field that is the literal - decodes to the zero mask; a broken-item *)
(* field that is the literal -1 decodes to no linked item, and any other   *)
(* broken-item text decodes to a linked id only when it has the shape      *)
(* item[N], the Item failing otherwise.                                    *)
(***************************************************************************)
C18_Case == unit = "item::parse" /\ Returned /\ FieldCount(unit_text) = 39

Commas(f) == Cardinality({p \in 1..Len(f) : f[p] = ","})

\* the sub-field part of the two-part field f is the literal "-"
IsDash(f, part) == Commas(f) = 1 /\ RefHalf(f, part) = <<"-">>

\* f has the shape item[N]
RefItemShape(f) ==
    /\ Len(f) >= 7
    /\ SubSeq(f, 1, 5) = <<"i", "t", "e", "m", "[">>
    /\ f[Len(f)] = "]"
    /\ \A n \in 6..(Len(f) - 1) : f[n] \in Digits

C18_EmptyFields ==
    LET fe == RefField(unit_text, 5)
        fc == RefField(unit_text, 6)
    IN  /\ (unit_text = Probe(ItemFields, 5, E) \/ unit_text = Join(SentinelItemFields, Sep))
              => decoded.val.ok
        /\ (fe = E /\ decoded.val.ok) =>
              decoded.val.val.equip_class_mask = {} /\ decoded.val.val.equip_race_mask = {}
        /\ (fc = E /\ decoded.val.ok) =>
              decoded.val.val.curse_alignment_mask = {} /\ decoded.val.val.curse_sex_mask = {}
        \* run on the empty text the sub-field decoders refuse it
        /\ unit_text = Probe(ItemFields, 5, <<",">>) => ~decoded.val.ok

C18_DashSubFields ==
    LET fe == RefField(unit_text, 5)
        fc == RefField(unit_text, 6)
    IN  /\ unit_text = Probe(ItemFields, 5, <<"-", ",", "-">>) => decoded.val.ok
        /\ unit_text = Probe(ItemFields, 6, <<"-", ",", "-">>) => decoded.val.ok
        /\ decoded.val.ok =>
              /\ IsDash(fe, 1) => decoded.val.val.equip_class_mask = {}
              /\ IsDash(fe, 2) => decoded.val.val.equip_race_mask = {}
              /\ IsDash(fc, 1) => decoded.val.val.curse_alignment_mask = {}
              /\ IsDash(fc, 2) => decoded.val.val.curse_sex_mask = {}

C18_BrokenItem ==
    LET fb == RefField(unit_text, 21)
    IN  /\ unit_text = Probe(ItemFields, 21, <<"-", "1">>) => decoded.val.ok
        /\ (fb = <<"-", "1">> /\ decoded.val.ok) => ~decoded.val.val.broken_item_id.some
        /\ (fb # <<"-", "1">> /\ decoded.val.ok) =>
              /\ RefItemShape(fb)
              /\ decoded.val.val.broken_item_id.some
              /\ decoded.val.val.broken_item_id.val = Canon(SubSeq(fb, 6, Len(fb) - 1))
        /\ \A id \in BrokenItemIds :
              (unit_text = Probe(ItemFields, 21, W_item \o <<"[">> \o id \o <<"]">>)
                 /\ Len(Canon(id)) < 10) => decoded.val.ok

C18_Sentinels == C18_Case => (C18_EmptyFields /\ C18_DashSubFields /\ C18_BrokenItem)

\* empty equip and curse fields decoded to four zero masks, and item[3] to
\* the linked id 3
C18_Witness ==
    /\ C18_Case
    /\ RefField(unit_text, 5) = E
    /\ RefField(unit_text, 6) = E
    /\ RefField(unit_text, 21) = <<"i", "t", "e", "m", "[", "3", "]">>
    /\ decoded.val.ok
    /\ decoded.val.val.equip_class_mask = {}
    /\ decoded.val.val.equip_race_mask = {}
    /\ decoded.val.val.curse_alignment_mask = {}
    /\ decoded.val.val.curse_sex_mask = {}
    /\ decoded.val.val.broken_item_id = [some |-> TRUE, val |-> <<"3">>]

(***************************************************************************)
(* C19  A Monster text decodes whenever it has at least 49 fields and the  *)
(* fields the decoder reads are valid, and fails with fewer than 49.  The  *)
(* fields of index 49 and above are ignored: a text with fields appended   *)
(* decodes to what its first 49 fields decode to.                          *)
(***************************************************************************)
C19_Case == unit = "monster::parse" /\ Returned

\* the text of the first n fields of t (t has more than n fields)
RefFirstFields(t, n) ==
    LET seps == SepPositions(t)
        cut  == CHOOSE p \in seps : Cardinality({q \in seps : q <= p}) = n
    IN  SubSeq(t, 1, cut - 1)

C19_First49(t) == IF FieldCount(t) > 49 THEN RefFirstFields(t, 49) ELSE t

C19_MonsterTrailingFields ==
    C19_Case =>
        /\ FieldCount(unit_text) < 49 => ~decoded.val.ok
        /\ FieldCount(unit_text) >= 49 =>
              /\ decoded.val = MonsterParse(0, C19_First49(unit_text))
              /\ C19_First49(unit_text) = Join(MonsterFields, Sep) =>
                    /\ decoded.val.ok
                    /\ decoded.val.val.name_ident = Fld(MonsterFields, 0)
                    /\ decoded.val.val.resist_mask = {RESIST_POISON}

\* a well-formed Monster text with the field x appended, decoded
C19_Witness ==
    /\ C19_Case
    /\ unit_text = Join(MonsterFields, Sep) \o Sep \o <<"x">>
    /\ FieldCount(unit_text) = 50
    /\ decoded.val.ok
    /\ decoded.val = MonsterParse(0, Join(MonsterFields, Sep))

(***************************************************************************)
(* C20  Every integer field is parsed into its declared type; text that    *)
(* is out of the range of the type or malformed makes the entity fail and  *)
(* is never wrapped around or replaced by a default.  An Item stock        *)
(* outside the i32 range, an Item price outside the u64 range, a negative  *)
(* value in an unsigned field (Race lifetime, Item poison damage, Spell MP *)
(* cost, an element of a stat array) each fail the entity, and one bad     *)
(* element of a comma-separated list fails the whole list.                 *)
(***************************************************************************)
C20_FieldHolds(f) ==
    \A c \in f.cases :
        unit_text = Probe(UnitFields[f.unit], f.idx, c.text) =>
            /\ decoded.val.ok = c.ok
            /\ c.ok => decoded.val.val[f.name] = c.val

C20_IntegerRanges ==
    Returned => \A f \in IntFields : unit = f.unit => C20_FieldHolds(f)

\* an Item whose stock is one past the i32 maximum was refused
C20_Witness ==
    /\ Returned
    /\ unit = "item::parse"
    /\ unit_text = Probe(ItemFields, 4, Append(SubSeq(I32Max, 1, 9), "8"))
    /\ ~decoded.val.ok
    /\ decoded.val.cause = "number"

(***************************************************************************)
(* C30  The attack-debuff field of a Monster is decoded digit per bit and  *)
(* not by the code table of the Item field: each decimal digit d in 0..4   *)
(* sets the debuff of bit d (0 Sleep, 1 Paralysis, 2 Petrification,        *)
(* 3 Knockout, 4 Critical).  The field 2 is Petrification, several digits  *)
(* are the union of their debuffs, the empty field is the empty set, and   *)
(* neither the order nor the repetition of digits matters.                 *)
(***************************************************************************)
\* the debuff the claim gives each digit
RefDebuffOfDigit ==
    [d \in {"0", "1", "2", "3", "4"} |->
        CASE d = "0" -> DEBUFF_SLEEP
          [] d = "1" -> DEBUFF_PARALYSIS
          [] d = "2" -> DEBUFF_PETRIFICATION
          [] d = "3" -> DEBUFF_KNOCKOUT
          [] d = "4" -> DEBUFF_CRITICAL]

C30_Case == unit = "monster::parse" /\ Returned /\ FieldCount(unit_text) = 49

C30_MonsterDebuffDigits ==
    C30_Case =>
        LET f == RefField(unit_text, 19)
        IN  /\ (unit_text = Probe(MonsterFields, 19, f)
                  /\ \A n \in 1..Len(f) : f[n] \in DOMAIN RefDebuffOfDigit) =>
                  /\ decoded.val.ok
                  /\ decoded.val.val.attack_debuff_mask
                        = {RefDebuffOfDigit[f[n]] : n \in 1..Len(f)}
            /\ decoded.val.ok =>
                  \A n \in 1..Len(f) :
                      /\ f[n] \in DOMAIN RefDebuffOfDigit
                      /\ RefDebuffOfDigit[f[n]] \in decoded.val.val.attack_debuff_mask

\* the field 21 decoded to Paralysis and Petrification together
C30_Witness ==
    /\ C30_Case
    /\ RefField(unit_text, 19) = <<"2", "1">>
    /\ decoded.val.ok
    /\ decoded.val.val.attack_debuff_mask = {DEBUFF_PARALYSIS, DEBUFF_PETRIFICATION}

(***************************************************************************)
(* C28  The follower of a Monster is absent exactly when the follower-id   *)
(* field (index 29) is empty, and then the probability field (index 28)    *)
(* is not parsed: malformed text there does not fail the Monster.  With a  *)
(* non-empty id, an empty probability field gives the probability 50 and   *)
(* a non-empty one must parse as a u32 or the Monster fails.               *)
(***************************************************************************)
C28_Case == unit = "monster::parse" /\ Returned /\ FieldCount(unit_text) = 49

C28_PairHolds(id, c) ==
    IF id = E
    THEN decoded.val.ok /\ ~decoded.val.val.follower.some
    ELSE IF c.text = E
    THEN /\ decoded.val.ok
         /\ decoded.val.val.follower = [some |-> TRUE, id_expr |-> id, prob |-> <<"5", "0">>]
    ELSE /\ decoded.val.ok = c.ok
         /\ c.ok => decoded.val.val.follower
                       = [some |-> TRUE, id_expr |-> id, prob |-> c.val.mag]

C28_Follower ==
    C28_Case =>
        /\ \A id \in FollowerIdValues, c \in FollowerProbCases :
              unit_text = Probe2(MonsterFields, 29, id, 28, c.text) => C28_PairHolds(id, c)
        /\ decoded.val.ok =>
              (decoded.val.val.follower.some <=> RefField(unit_text, 29) # E)

\* an empty follower id with the malformed probability x: decoded, no follower
C28_Witness ==
    /\ C28_Case
    /\ RefField(unit_text, 29) = E
    /\ RefField(unit_text, 28) = <<"x">>
    /\ decoded.val.ok
    /\ ~decoded.val.val.follower.some

(***************************************************************************)
(* C29  The dispel threshold of a Class is absent exactly when field 12    *)
(* parses to 0 and is Some(N) for every N > 0.  The dispel monster-kind    *)
(* mask (field 13) is decoded and validated in both cases: an invalid mask *)
(* fails the Class even when the threshold is absent.                      *)
(***************************************************************************)
C29_Case == unit = "class::parse" /\ Returned /\ FieldCount(unit_text) = 21

\* the mask text is a valid monster-kind mask: hex digits below 15
RefKindMaskOk(v) == \A n \in 1..Len(v) : RefDigit(v[n], 16) \in 0..14

C29_PairHolds(c, v) ==
    /\ decoded.val.ok = (c.ok /\ RefKindMaskOk(v))
    /\ decoded.val.ok =>
          /\ decoded.val.val.xl_for_dispell.some = (c.val.mag # <<"0">>)
          /\ decoded.val.val.xl_for_dispell.some =>
                decoded.val.val.xl_for_dispell.val = c.val
          /\ decoded.val.val.dispell_mask = RefDigits(v, 16)

C29_DispelThreshold ==
    C29_Case =>
        \A c \in ThresholdCases, v \in DispelMaskValues :
            unit_text = Probe2(ClassFields, 12, c.text, 13, v) => C29_PairHolds(c, v)

\* the threshold 0 with the invalid mask f: the Class was refused
C29_Witness ==
    /\ C29_Case
    /\ RefField(unit_text, 12) = <<"0">>
    /\ RefField(unit_text, 13) = <<"f">>
    /\ unit_text = Probe2(ClassFields, 12, <<"0">>, 13, <<"f">>)
    /\ ~decoded.val.ok
    /\ decoded.val.cause = "unknown_flag_bit"

(***************************************************************************)
(* C27  load fails when SpellLvNum or ExclusiveUseOfMonsters is absent     *)
(* from the store or does not parse (as an unsigned integer, as true or    *)
(* false), even when the store holds no SpellKind0.  The failure surfaces  *)
(* after any Class error and before any Item or Monster is decoded.        *)
(***************************************************************************)
\* t is an unsigned decimal numeral of at most nine digits, an optional "+"
\* in front
RefSmallUnsigned(t) ==
    LET body == IF Len(t) > 0 /\ t[1] = "+" THEN Tail(t) ELSE t
    IN  Len(body) \in 1..9 /\ \A n \in 1..Len(body) : body[n] \in Digits

\* one of the two header keys is absent or does not parse (the texts offered
\* for SpellLvNum are short)
C27_HeaderBad ==
    \/ K_SpellLvNum \notin DOMAIN kvs
    \/ K_ExclusiveUseOfMonsters \notin DOMAIN kvs
    \/ ~RefSmallUnsigned(kvs[K_SpellLvNum])
    \/ kvs[K_ExclusiveUseOfMonsters] \notin {S_true, S_false}

\* a stage before the spell realms has a fault
C27_EarlierFault ==
    \/ MissingScalars # {}
    \/ \E stage \in {"stat", "race", "class"} : StageFailures(stage) # {}

C27_HeaderKeysMandatory ==
    /\ (Done /\ parsed = "Ok" /\ C27_HeaderBad) =>
          /\ Failed
          /\ Rank(result.err.stage) <= Rank("spell_realms")
          /\ ~C27_EarlierFault =>
                /\ result.err.stage = "spell_realms"
                /\ result.err.cause \in {"missing_key", "number", "bool"}
          /\ StageFailures("class") # {} => Rank(result.err.stage) <= Rank("class")
    /\ (parsed = "Ok" /\ C27_HeaderBad) =>
          /\ ~items.some /\ ~monsters.some
          /\ pc \notin {"items", "items_loop", "monsters", "monsters_loop"}

\* no SpellLvNum and no SpellKind0, an Item0 waiting: the load failed in the
\* spell stage with the classes decoded and no item
C27_Witness ==
    /\ Failed
    /\ K_SpellLvNum \notin DOMAIN kvs
    /\ SeqKey(P_SpellKind, 0) \notin DOMAIN kvs
    /\ SeqKey(P_Item, 0) \in DOMAIN kvs
    /\ result.err.stage = "spell_realms"
    /\ result.err.cause = "missing_key"
    /\ classes.some
    /\ ~items.some

(***************************************************************************)
(* C21  load validates no reference between entities.  A plaintext in      *)
(* which the broken-item reference item[N] of an Item, a bit of an equip   *)
(* mask, or the length of the per-realm spell-level list of a Monster      *)
(* names an index that no decoded item, class, race or realm has still     *)
(* loads, and the raw id, bit or list is stored as written.                *)
(***************************************************************************)
\* the text of the n-th item / monster of the decoded run (n from 1)
C21_ItemText(n) == RunText(kvs, P_Item, n - 1)

C21_MonsterText(n) == RunText(kvs, P_Monster, n - 1)

\* the elements of a comma-separated list of short unsigned numerals
C21_Levels(f) ==
    LET commas == {p \in 1..Len(f) : f[p] = ","}
        bounds == <<0>> \o [n \in 1..Cardinality(commas) |->
                              CHOOSE p \in commas : Cardinality({q \in commas : q <= p}) = n]
                       \o <<Len(f) + 1>>
    IN  [n \in 1..(Len(bounds) - 1) |->
            [neg |-> FALSE, mag |-> Canon(SubSeq(f, bounds[n] + 1, bounds[n + 1] - 1))]]

C21_ItemStored(n) ==
    LET fb  == RefField(C21_ItemText(n), 21)
        fe  == RefField(C21_ItemText(n), 5)
        it  == result.scenario.items[n]
    IN  /\ RefItemShape(fb) =>
              it.broken_item_id = [some |-> TRUE, val |-> Canon(SubSeq(fb, 6, Len(fb) - 1))]
        /\ fe = Fld(DanglingItemFields, 5) =>
              it.equip_class_mask = {35} /\ it.equip_race_mask = {35}
        /\ fe = Fld(ItemFields, 5) => it.equip_class_mask = {3}

C21_MonsterStored(n) ==
    result.scenario.monsters[n].spell_levels = C21_Levels(RefField(C21_MonsterText(n), 18))

C21_NoCrossValidation ==
    /\ (Done /\ FaultRanks(plaintext) = {}) => Loaded
    /\ Loaded =>
          /\ \A n \in 1..Len(result.scenario.items) : C21_ItemStored(n)
          /\ \A n \in 1..Len(result.scenario.monsters) : C21_MonsterStored(n)

\* loaded with the reference item[9] among fewer than nine items, the bits
\* 35 with fewer than 36 classes and races, and seven spell levels for fewer
\* than seven realms
C21_Witness ==
    /\ Loaded
    /\ Len(result.scenario.items) \in 1..8
    /\ Len(result.scenario.monsters) >= 1
    /\ result.scenario.items[1].broken_item_id = [some |-> TRUE, val |-> <<"9">>]
    /\ result.scenario.items[1].equip_class_mask = {35}
    /\ result.scenario.items[1].equip_race_mask = {35}
    /\ Len(result.scenario.classes) < 36
    /\ Len(result.scenario.races) < 36
    /\ Len(result.scenario.monsters[1].spell_levels) = 7
    /\ Len(result.scenario.spell_realms) < 7

(***************************************************************************)
(* C26  Once the iterator returned by iter_seq has signalled the end of    *)
(* the sequence, at the first absent index, every further poll of that     *)
(* iterator signals the end as well: it never yields a value stored under  *)
(* an index beyond the gap.                                                *)
(***************************************************************************)
C26_EndIsFinal ==
    \A a, b \in 1..Len(polled) : (a < b /\ ~polled[a].some) => ~polled[b].some

\* what the iterator does: the n-th poll returns the value of index n - 1
\* when that key is present, whatever the earlier polls returned
C26_PollLooksUpItsIndex ==
    \A n \in 1..Len(polled) :
        polled[n] = IF SeqKey(P_Item, n - 1) \in DOMAIN kvs
                    THEN [some |-> TRUE, val |-> kvs[SeqKey(P_Item, n - 1)]]
                    ELSE [some |-> FALSE, val |-> <<>>]

\* Item0, Item1, Item3: the third poll signalled the end, the fourth yielded
\* the value of Item3
C26_Witness ==
    /\ DOMAIN kvs = {SeqKey(P_Item, 0), SeqKey(P_Item, 1), SeqKey(P_Item, 3)}
    /\ Len(polled) = 4
    /\ ~polled[3].some
    /\ polled[4] = [some |-> TRUE, val |-> <<"v", "3">>]

(***************************************************************************)
(* C22  In the viewer, an OpenScenario message whose bytes fail to         *)
(* decrypt, parse or decode leaves the model exactly as it was: plaintext, *)
(* scenario and page keep their values, so a scenario loaded before stays  *)
(* displayed.                                                              *)
(***************************************************************************)
\* the files whose bytes do not decrypt (wrong length, wrong padding, not
\* UTF-8), do not parse (a malformed line) or do not decode (an absent key,
\* a malformed realm)
C22_FailingFiles ==
    {"bad_length", "bad_padding", "des_not_utf8", "bad_line", "des_bad_line",
     "no_title", "bad_realm"}

C22_FailedOpenKeepsModel ==
    [][\A n \in 1..Len(reads) :
          (/\ reads[n].completed = 0
           /\ reads'[n].completed > 0
           /\ reads[n].file \in C22_FailingFiles) => model' = model]_vars

\* the two-realm scenario was loaded and its second realm page selected, the
\* read of a file with wrong padding completed after it, and the scenario,
\* its text and the page are still there; the failing files are those that
\* open_scenario refuses
C22_Witness ==
    /\ Len(reads) = 2
    /\ reads[1] = [file |-> "two", completed |-> 1]
    /\ reads[2].file = "bad_padding"
    /\ reads[2].completed = 2
    /\ model = [plaintext |-> Some(TwoRealmText),
                scenario  |-> Some(load_from_plaintext(TwoRealmText).scenario),
                page      |-> Some(SpellRealm(1))]
    /\ ~panicked
    /\ \A f \in DOMAIN FileBytes : Opened[f].ok <=> f \notin C22_FailingFiles

(***************************************************************************)
(* C23  In every reachable viewer state with a scenario loaded and the     *)
(* page SpellRealm{id}, id is smaller than the number of spell realms of   *)
(* the loaded scenario, whatever PageChanged and OpenScenario messages     *)
(* came before (opening a scenario with fewer realms while a realm page is *)
(* selected included), so that rendering never indexes spell_realms out of *)
(* range.                                                                  *)
(***************************************************************************)
C23_RealmPageInRange ==
    /\ (model.scenario.some /\ model.page.some /\ model.page.val.tag = "SpellRealm")
          => model.page.val.id < Len(model.scenario.val.spell_realms)
    /\ ~panicked

\* what the code does: OpenScenario leaves the page alone, so the page of the
\* second realm of the first file outlives the opening of a one-realm file
C23_PageOutlivesScenario ==
    /\ Len(reads) = 2
    /\ reads[1] = [file |-> "two", completed |-> 1]
    /\ reads[2] = [file |-> "one", completed |-> 2]
    /\ model.page = Some(SpellRealm(1))
    /\ model.scenario = Some(load_from_plaintext(OneRealmText).scenario)
    /\ panicked

(***************************************************************************)
(* C24  When the user selects file A and then file B and both reads are in *)
(* flight, then once both reads have been delivered the model holds the    *)
(* scenario and the plaintext of B, the file selected last, whichever read *)
(* completed first.                                                        *)
(***************************************************************************)
C24_LastSelectedWins ==
    (/\ Len(reads) = 2
     /\ reads[1].completed > 0
     /\ reads[2].completed > 0
     /\ reads[1].file \in {"two", "one", "des_none"}
     /\ reads[2].file \in {"two", "one", "des_none"})
    => /\ model.plaintext = Some(Opened[reads[2].file].val.plaintext)
       /\ model.scenario = Some(Opened[reads[2].file].val.scenario)

\* what the code does: the read of B completed first and the read of A last,
\* and the model holds A
C24_LastDeliveredWins ==
    /\ Len(reads) = 2
    /\ reads[1] = [file |-> "one", completed |-> 2]
    /\ reads[2] = [file |-> "des_none", completed |-> 1]
    /\ input_file = <<"des_none">>
    /\ model.plaintext = Some(OneRealmText)
    /\ model.scenario = Some(load_from_plaintext(OneRealmText).scenario)

(***************************************************************************)
(* C25  In every reachable viewer state the plaintext is present if and    *)
(* only if the scenario is present, and the stored scenario is the         *)
(* decoding of the stored plaintext; once both are present no message      *)
(* makes either absent again.                                              *)
(***************************************************************************)
C25_Paired ==
    /\ model.plaintext.some <=> model.scenario.some
    /\ model.scenario.some =>
          load_from_plaintext(model.plaintext.val) =
             [tag |-> "Ok", scenario |-> model.scenario.val, err |-> <<>>]

C25_TextAndScenarioTogether ==
    /\ []C25_Paired
    /\ [][(model.plaintext.some /\ model.scenario.some)
             => (model'.plaintext.some /\ model'.scenario.some)]_vars

\* a text file was opened, then an encrypted one: the model holds the
\* decrypted text and the scenario decoded from it
C25_Witness ==
    /\ Len(reads) = 2
    /\ reads[1] = [file |-> "two", completed |-> 1]
    /\ reads[2] = [file |-> "des_none", completed |-> 2]
    /\ model.plaintext = Some(NoRealmText)
    /\ model.scenario = Some(load_from_plaintext(NoRealmText).scenario)
    /\ model.scenario.val.spell_realms = <<>>
    /\ model.page = Some(Stats)

====
